---- MODULE Spec2Model ----
(***************************************************************************)
(* Verification model of the MDTF-diagnostics framework core:              *)
(*   - TempDirManager (make_tempdir / rm_tempdir / cleanup)                *)
(*   - bump_version and PathManager.model_paths                            *)
(*   - parse_pod_list over the POD registry built by load_pod_settings     *)
(* Strings that the code takes apart (paths, file names) are sequences of  *)
(* one-character strings; os.path and re are modelled by what they do.     *)
(***************************************************************************)
EXTENDS Integers, Sequences, FiniteSets, TLC

VARIABLES
    \* ---- TempDirManager ----
    dirs,        \* TempDirManager._dirs: list of registered paths
    disk,        \* directories that exist under TempDirManager._root
    keep_temp,   \* config.config['keep_temp']
    tdLast,      \* the last TempDirManager call: what it saw and how it ended
    \* ---- bump_version ----
    bvIn,        \* arguments of bump_version and the os.path.exists it runs against
    bvCalls,     \* results of the calls made so far, oldest first
    \* ---- PathManager.model_paths ----
    mpCfg,       \* WORKING_DIR and OUTPUT_DIR of the PathManager, and the case
    mpFs,        \* paths for which os.path.exists is true
    mpCalls,     \* model_paths calls so far: arguments, disk seen, result
    \* ---- parse_pod_list ----
    podIn,       \* the diagnostics directory, the settings files and --pods
    podReg,      \* pod_data, all_realms and pod_realms read by the constructor
    pod_list,    \* MDTFConfigurer.pod_list
    podOut,      \* warnings printed and whether parse_pod_list called exit()
    \* ---- parse_case_list ----
    caseIn,      \* cli_obj: case_list, the MODEL group, root_dir, is_default['pods']
    case_list,   \* MDTFConfigurer.case_list
    caseOut,     \* entries warned about and how parse_case_list ended
    \* ---- start of a run: constructor and main_loop ----
    run,         \* the command line, the root directories, and how far the run got
    \* ---- VariableTranslator ----
    trIn,        \* the convention files found by glob, in the order read
    trTab,       \* axes, variables and units by convention, and how loading ended
    trOut,       \* the last to_CF / from_CF call and how it ended
    \* ---- SIGINT / SIGTERM during a run of MDTFFramework ----
    sig,         \* the singletons built so far, the temp directories, an
                 \* unfinished cleanup, and how the last handler call ended
    \* ---- MDTFFramework.main_loop ----
    ml           \* the case list, the PODs that cannot be built, the log of calls

tempVars == <<dirs, disk, keep_temp, tdLast>>
bumpVars == <<bvIn, bvCalls>>
pathVars == <<mpCfg, mpFs, mpCalls>>
podVars == <<podIn, podReg, pod_list, podOut>>
caseVars == <<caseIn, case_list, caseOut>>
transVars == <<trIn, trTab, trOut>>
vars == <<tempVars, bumpVars, pathVars, podVars, caseVars, run, transVars, sig, ml>>

nonTempVars == <<bumpVars, pathVars, podVars, caseVars, run, transVars, sig, ml>>
nonBumpVars == <<tempVars, pathVars, podVars, caseVars, run, transVars, sig, ml>>
nonPathVars == <<tempVars, bumpVars, podVars, caseVars, run, transVars, sig, ml>>
nonPodVars == <<tempVars, bumpVars, pathVars, caseVars, run, transVars, sig, ml>>
nonCaseVars == <<tempVars, bumpVars, pathVars, podVars, run, transVars, sig, ml>>
nonRunVars == <<tempVars, bumpVars, pathVars, podVars, caseVars, transVars, sig, ml>>
nonTransVars == <<tempVars, bumpVars, pathVars, podVars, caseVars, run, sig, ml>>
nonSigVars == <<tempVars, bumpVars, pathVars, podVars, caseVars, run, transVars, ml>>
nonLoopVars == <<tempVars, bumpVars, pathVars, podVars, caseVars, run, transVars, sig>>

Range(s) == {s[i] : i \in 1..Len(s)}

\* Values of the variables of the components a specification leaves alone
IdleTemp ==
    /\ dirs = <<>>
    /\ disk = {}
    /\ keep_temp = FALSE
    /\ tdLast = [op |-> "init"]

IdleBump ==
    /\ bvIn = [mode |-> "idle"]
    /\ bvCalls = <<>>

IdlePaths ==
    /\ mpCfg = [mode |-> "idle"]
    /\ mpFs = {}
    /\ mpCalls = <<>>

IdlePods ==
    /\ podIn = [mode |-> "idle"]
    /\ podReg = [pod_data |-> <<>>, pod_list |-> <<>>, all_realms |-> <<>>,
                 pod_realms |-> <<>>, logged |-> {}, exc |-> "none"]
    /\ pod_list = <<>>
    /\ podOut = [state |-> "idle"]

IdleCases ==
    /\ caseIn = [mode |-> "idle"]
    /\ case_list = <<>>
    /\ caseOut = [state |-> "idle"]

IdleRun == run = [mode |-> "idle"]

IdleTrans ==
    /\ trIn = [mode |-> "idle"]
    /\ trTab = [state |-> "idle"]
    /\ trOut = [op |-> "idle"]

IdleSig == sig = [mode |-> "idle"]

IdleLoop == ml = [mode |-> "idle"]

(***************************************************************************)
(* TempDirManager                                                          *)
(***************************************************************************)
\* Directory paths below _root that make_tempdir can produce: _prefix+hash_obj
\* for a string key (a key holding a separator names a nested directory), the
\* hex digest of a hashable object, or a name picked by tempfile.mkdtemp.
TempKeys == {<<"a">>, <<"b">>, <<"c">>, <<"a", "c">>}

IsPrefix(p, q) == Len(p) <= Len(q) /\ SubSeq(q, 1, Len(p)) = p
Parents(p) == {SubSeq(p, 1, n) : n \in 1..Len(p)}

\* os.makedirs(new_dir): the directory and every missing parent
makedirs(p, dk) == dk \cup Parents(p)

\* shutil.rmtree(path): the directory and everything below it
rmtree(p, dk) == {q \in dk : ~IsPrefix(p, q)}

\* list.remove(x): drops the first occurrence
ListRemove(s, x) ==
    LET i == CHOOSE k \in 1..Len(s) : s[k] = x /\ \A j \in 1..(k - 1) : s[j] # x
    IN  SubSeq(s, 1, i - 1) \o SubSeq(s, i + 1, Len(s))

rm_tempdir_unchecked(path, ds, dk) ==
    IF path \notin Range(ds)
    THEN [dirs |-> ds, disk |-> rmtree(path, dk), exc |-> "none"]
    ELSE [dirs |-> ListRemove(ds, path), disk |-> rmtree(path, dk), exc |-> "none"]

\* TempDirManager.rm_tempdir(path) on registry ds and disk dk
rm_tempdir(path, ds, dk) ==
    IF path \notin Range(ds)
    THEN [dirs |-> ds, disk |-> dk, exc |-> "AssertionError"]
    ELSE IF path \notin dk
         THEN [dirs |-> ListRemove(ds, path), disk |-> dk, exc |-> "FileNotFoundError"]
         ELSE [dirs |-> ListRemove(ds, path), disk |-> rmtree(path, dk), exc |-> "none"]

\* TempDirManager.cleanup(): "for d in self._dirs: self.rm_tempdir(d)".  The
\* list iterator keeps an index into the live list and stops when the index
\* reaches the current length; rm_tempdir shrinks the list under it.
RECURSIVE cleanupFrom(_, _, _)
cleanupFrom(i, ds, dk) ==
    IF i > Len(ds)
    THEN [dirs |-> ds, disk |-> dk, exc |-> "none"]
    ELSE LET r == rm_tempdir(ds[i], ds, dk)
         IN  IF r.exc # "none" THEN r ELSE cleanupFrom(i + 1, r.dirs, r.disk)

cleanup(ds, dk) == cleanupFrom(1, ds, dk)

\* TempDirManager.make_tempdir(hash_obj) for a string or hashable key
make_tempdir(new_dir, ds, dk) ==
    LET dk2 == IF new_dir \in dk THEN dk ELSE makedirs(new_dir, dk)
    IN  IF new_dir \in Range(ds)
        THEN [dirs |-> ds, disk |-> dk2, exc |-> "AssertionError"]
        ELSE [dirs |-> Append(ds, new_dir), disk |-> dk2, exc |-> "none"]

\* the call just made, what it saw, and the call made before it
Called(op, arg, r) ==
    [op |-> op, arg |-> arg, exc |-> r.exc, dirsBefore |-> dirs, diskBefore |-> disk,
     prev |-> [op |-> tdLast.op, exc |-> tdLast.exc]]

\* make_tempdir(hash_obj) with hash_obj a string or a hashable object
MakeTempdirKey ==
    \E k \in TempKeys :
        LET r == make_tempdir(k, dirs, disk)
        IN  /\ dirs' = r.dirs
            /\ disk' = r.disk
            /\ tdLast' = Called("make_tempdir", k, r)
            /\ UNCHANGED <<keep_temp, nonTempVars>>

\* make_tempdir() without a key: tempfile.mkdtemp creates a directory that
\* did not exist
MakeTempdirFresh ==
    \E k \in TempKeys :
        /\ k \notin disk
        /\ Parents(k) \ {k} \subseteq disk
        /\ LET r == make_tempdir(k, dirs, makedirs(k, disk))
           IN  /\ dirs' = r.dirs
               /\ disk' = r.disk
               /\ tdLast' = Called("mkdtemp", k, r)
        /\ UNCHANGED <<keep_temp, nonTempVars>>

RmTempdir ==
    \E k \in TempKeys :
        LET r == rm_tempdir(k, dirs, disk)
        IN  /\ dirs' = r.dirs
            /\ disk' = r.disk
            /\ tdLast' = Called("rm_tempdir", k, r)
            /\ UNCHANGED <<keep_temp, nonTempVars>>

\* TempDirManager.cleanup() called directly
Cleanup ==
    LET r == cleanup(dirs, disk)
    IN  /\ dirs' = r.dirs
        /\ disk' = r.disk
        /\ tdLast' = Called("cleanup", <<>>, r)
        /\ UNCHANGED <<keep_temp, nonTempVars>>

\* MDTFFramework.cleanup_tempdirs: the signal handler and the normal exit path
cleanup_tempdirs(keep, ds, dk) ==
    IF keep THEN [dirs |-> ds, disk |-> dk, exc |-> "none"] ELSE cleanup(ds, dk)

CleanupTempdirs ==
    LET r == cleanup_tempdirs(keep_temp, dirs, disk)
    IN  /\ dirs' = r.dirs
        /\ disk' = r.disk
        /\ tdLast' = Called("cleanup_tempdirs", <<>>, r)
        /\ UNCHANGED <<keep_temp, nonTempVars>>

DiskClosed(dk) == \A p \in dk : Parents(p) \subseteq dk

\* TempDirManager.__init__: empty registry; _root may hold directories left
\* by an earlier run
InitTemp ==
    /\ IdleBump /\ IdlePaths /\ IdlePods /\ IdleCases /\ IdleRun /\ IdleTrans /\ IdleSig /\ IdleLoop
    /\ dirs = <<>>
    /\ disk \in {dk \in SUBSET TempKeys : DiskClosed(dk)}
    /\ keep_temp \in BOOLEAN
    /\ tdLast = [op |-> "init", arg |-> <<>>, exc |-> "none",
                 dirsBefore |-> <<>>, diskBefore |-> {},
                 prev |-> [op |-> "none", exc |-> "none"]]

NextTemp ==
    \/ MakeTempdirKey
    \/ MakeTempdirFresh
    \/ RmTempdir
    \/ Cleanup
    \/ CleanupTempdirs

SpecTemp == InitTemp /\ [][NextTemp]_vars

(***************************************************************************)
(* Claims: TempDirManager                                                  *)
(***************************************************************************)
CleanupReturned ==
    /\ tdLast.op \in {"cleanup", "cleanup_tempdirs"}
    /\ tdLast.exc = "none"
    /\ ~(tdLast.op = "cleanup_tempdirs" /\ keep_temp)

\* C1: after cleanup() returns with the keep-temp flag unset, every directory
\* that was registered when cleanup was called is gone from disk and the
\* registry is empty, however many directories were registered.
C1_CleanupRemovesAll ==
    CleanupReturned =>
        /\ dirs = <<>>
        /\ \A d \in Range(tdLast.dirsBefore) : d \notin disk

NoDuplicates(lst) == Cardinality(Range(lst)) = Len(lst)

MadeTempdir == tdLast.op = "make_tempdir"

RegisteredTwiceFails ==
    (MadeTempdir /\ tdLast.arg \in Range(tdLast.dirsBefore)) =>
        tdLast.exc = "AssertionError" /\ dirs = tdLast.dirsBefore

ExistingUnregisteredSucceeds ==
    (MadeTempdir /\ tdLast.arg \in tdLast.diskBefore
                 /\ tdLast.arg \notin Range(tdLast.dirsBefore)) =>
        /\ tdLast.exc = "none"
        /\ dirs = Append(tdLast.dirsBefore, tdLast.arg)
        /\ disk = tdLast.diskBefore

\* C19: after any sequence of make_tempdir, rm_tempdir and cleanup calls the
\* registry holds no path twice and every registered path is a directory on
\* disk; make_tempdir for a registered name fails without adding an entry, and
\* make_tempdir for an unregistered name whose directory exists registers it.
C19_RegistryMatchesDisk ==
    /\ NoDuplicates(dirs)
    /\ Range(dirs) \subseteq disk
    /\ RegisteredTwiceFails
    /\ ExistingUnregisteredSucceeds

\* C20: rm_tempdir(path) for a path that is not registered (never made, or
\* removed already) fails and leaves the registry and the disk as they were.
C20_RmUnregisteredFails ==
    (tdLast.op = "rm_tempdir" /\ tdLast.arg \notin Range(tdLast.dirsBefore)) =>
        /\ tdLast.exc = "AssertionError"
        /\ dirs = tdLast.dirsBefore
        /\ disk = tdLast.diskBefore

\* A second rm_tempdir of a directory that is back on disk under other
\* registered directories
C20_Witness ==
    /\ tdLast.op = "rm_tempdir"
    /\ tdLast.arg \notin Range(tdLast.dirsBefore)
    /\ tdLast.arg \in tdLast.diskBefore
    /\ Len(tdLast.dirsBefore) >= 2
    /\ tdLast.exc = "AssertionError"


\* cleanup_tempdirs was called right after a call of cleanup_tempdirs that
\* returned
CleanedUpTwice ==
    /\ tdLast.op = "cleanup_tempdirs"
    /\ tdLast.prev = [op |-> "cleanup_tempdirs", exc |-> "none"]

\* C21: a second cleanup_tempdirs right after a first one raises no error and
\* changes neither the registry nor the disk.
C21_CleanupIdempotent ==
    CleanedUpTwice =>
        /\ tdLast.exc = "none"
        /\ dirs = tdLast.dirsBefore
        /\ disk = tdLast.diskBefore

(***************************************************************************)
(* bump_version                                                            *)
(***************************************************************************)
Sep == "/"
None == -1          \* new_v=None
Digits == <<"0", "1", "2", "3", "4", "5", "6", "7", "8", "9">>
IsDigit(c) == c \in Range(Digits)

EndsWith(s, c) == Len(s) > 0 /\ s[Len(s)] = c
StartsWith(s, c) == Len(s) > 0 /\ s[1] = c

\* str.rstrip(c)
RECURSIVE rstrip(_, _)
rstrip(s, c) == IF EndsWith(s, c) THEN rstrip(SubSeq(s, 1, Len(s) - 1), c) ELSE s

\* str.rfind(c), as a 1-based index; 0 when c does not occur
rfind(s, c) ==
    LET I == {i \in 1..Len(s) : s[i] = c}
    IN  IF I = {} THEN 0 ELSE CHOOSE i \in I : \A j \in I : j <= i

\* posixpath.split
os_path_split(p) ==
    LET i == rfind(p, Sep)
        head == SubSeq(p, 1, i)
        tail == SubSeq(p, i + 1, Len(p))
    IN  <<IF head # <<>> /\ rstrip(head, Sep) # <<>> THEN rstrip(head, Sep) ELSE head,
          tail>>

\* posixpath.join(a, b)
os_path_join(a, b) ==
    IF StartsWith(b, Sep) THEN b
    ELSE IF a = <<>> \/ EndsWith(a, Sep) THEN a \o b
    ELSE a \o <<Sep>> \o b

\* posixpath.splitext: the extension starts at the last dot, unless only dots
\* precede it in the file name
os_path_splitext(p) ==
    LET sepIndex == rfind(p, Sep)
        dotIndex == rfind(p, ".")
    IN  IF dotIndex > sepIndex /\ \E k \in (sepIndex + 1)..(dotIndex - 1) : p[k] # "."
        THEN <<SubSeq(p, 1, dotIndex - 1), SubSeq(p, dotIndex, Len(p))>>
        ELSE <<p, <<>>>>

\* int(old_v) for a string of decimal digits
DigitValue(c) == (CHOOSE i \in 1..10 : Digits[i] = c) - 1
RECURSIVE int(_)
int(ds) ==
    IF ds = <<>> THEN 0
    ELSE 10 * int(SubSeq(ds, 1, Len(ds) - 1)) + DigitValue(ds[Len(ds)])

\* str(version) for version >= 0
RECURSIVE str(_)
str(n) == IF n < 10 THEN <<Digits[n + 1]>> ELSE str(n \div 10) \o <<Digits[(n % 10) + 1]>>

_split_version_greedy(file_) == <<file_, <<>>>>

\* _split_version: ^(?P<file_base>.*?)(\.v(?P<version>\d+))?$ ; the version is
\* <<>> when the optional group takes no part in the match
_split_version(file_) ==
    LET I == {i \in 1..(Len(file_) - 2) :
                /\ file_[i] = "."
                /\ file_[i + 1] = "v"
                /\ \A k \in (i + 2)..Len(file_) : IsDigit(file_[k])}
    IN  IF I = {} THEN <<file_, <<>>>>
        ELSE LET i == CHOOSE k \in I : \A j \in I : k <= j
             IN  <<SubSeq(file_, 1, i - 1), SubSeq(file_, i + 2, Len(file_))>>

_reassemble_v0(dir_, file_, version, ext_, final_sep) ==
    os_path_join(dir_, file_ \o <<".", "v">> \o str(version) \o ext_) \o final_sep

\* _reassemble: "if version:" is false for version 0
_reassemble(dir_, file_, version, ext_, final_sep) ==
    LET name == IF version # 0 /\ version # None
                THEN file_ \o <<".", "v">> \o str(version) \o ext_
                ELSE file_ \o ext_
    IN  os_path_join(dir_, name) \o final_sep

_path_exists_all(dir_list, file_, new_v, ext_, sep, fs) ==
    \A i \in 1..Len(dir_list) : _reassemble(dir_list[i], file_, new_v, ext_, sep) \in fs

\* _path_exists, against the set fs of paths for which os.path.exists is true
_path_exists(dir_list, file_, new_v, ext_, sep, fs) ==
    \E i \in 1..Len(dir_list) : _reassemble(dir_list[i], file_, new_v, ext_, sep) \in fs

\* "while _path_exists(...): new_v = new_v + 1"
RECURSIVE FirstFree(_, _, _, _, _, _)
FirstFree(dir_list, file_, v, ext_, sep, fs) ==
    IF _path_exists(dir_list, file_, v, ext_, sep, fs)
    THEN FirstFree(dir_list, file_, v + 1, ext_, sep, fs)
    ELSE v

ParsePathOnce(path) ==
    LET stripped == IF EndsWith(path, Sep) THEN rstrip(path, Sep) ELSE path
        sp == os_path_split(stripped)
        s1 == _split_version(sp[2])
        se == os_path_splitext(s1[1])
    IN  [final_sep |-> IF EndsWith(path, Sep) THEN <<Sep>> ELSE <<>>,
         dir_ |-> sp[1],
         file_ |-> IF s1[2] # <<>> THEN s1[1] ELSE se[1],
         old_v |-> s1[2],
         ext_ |-> IF s1[2] # <<>> THEN <<>> ELSE se[2]]

\* The parse at the head of bump_version: trailing separator, directory, base
\* name, version digits and extension of the last path component
ParsePath(path) ==
    LET stripped == IF EndsWith(path, Sep) THEN rstrip(path, Sep) ELSE path
        sp == os_path_split(stripped)
        s1 == _split_version(sp[2])
        se == os_path_splitext(s1[1])
        s2 == _split_version(se[1])
    IN  [final_sep |-> IF EndsWith(path, Sep) THEN <<Sep>> ELSE <<>>,
         dir_ |-> sp[1],
         file_ |-> IF s1[2] # <<>> THEN s1[1] ELSE s2[1],
         old_v |-> IF s1[2] # <<>> THEN s1[2] ELSE s2[2],
         ext_ |-> IF s1[2] # <<>> THEN <<>> ELSE se[2]]

\* bump_version(path, new_v, extra_dirs) -> (new_path, new_v); "probed" lists
\* the paths handed to os.path.exists
bump_version(path, new_v, extra_dirs, fs) ==
    LET p == ParsePath(path)
        dir_list == Append(extra_dirs, p.dir_)
    IN  IF new_v # None
        THEN [path |-> _reassemble(p.dir_, p.file_, new_v, p.ext_, p.final_sep),
              ver |-> new_v, probed |-> {}]
        ELSE LET start == IF p.old_v = <<>> THEN 0 ELSE int(p.old_v)
                 v == FirstFree(dir_list, p.file_, start, p.ext_, p.final_sep, fs)
             IN  [path |-> _reassemble(p.dir_, p.file_, v, p.ext_, p.final_sep),
                  ver |-> v,
                  probed |-> {_reassemble(dir_list[i], p.file_, u, p.ext_, p.final_sep) :
                                i \in 1..Len(dir_list), u \in start..v}]


(***************************************************************************)
(* Calls of bump_version                                                   *)
(***************************************************************************)
MaxPathLen == 5     \* longest path drawn character by character
MaxForced == 2      \* forced versions new_v are 0..MaxForced, and TwoDigits
MaxVer == 2         \* versions 0..MaxVer of a name may exist on disk
TwoDigits == 12

PathChars == {Sep, ".", "v", "0", "1"}
CharPaths == UNION {[1..n -> PathChars] : n \in 0..MaxPathLen}

\* Paths put together from their parts: directory, base name, digits of the
\* version marker (<<>>: no marker), extension, trailing separator
PartDirs == {<<>>, <<"D">>, <<"/", "D", "/", "C", ".", "v", "7">>}
MarkerBase == <<"A", ".", "v", "2">>
PartBases == {<<"A">>, <<"A", ".", "v", "2", ".", "b">>, MarkerBase}
PartVers == {<<>>, <<"0">>, <<"1">>, <<"0", "1">>, <<"1", "0">>}
PartExts == {<<>>, <<".", "f">>}
PartSeps == {<<>>, <<Sep>>}
ExtraDir == <<"E">>

NoParts == [dir |-> <<>>, base |-> <<>>, ver |-> <<>>, ext |-> <<>>, sep |-> <<>>]

\* The parts are the ones a reader of the composed path sees: without a marker
\* the base name must not end in one, and without marker and extension the
\* base name must not carry an extension of its own
Readable(pt) ==
    /\ pt.ver = <<>> => pt.base # MarkerBase
    /\ (pt.ver = <<>> /\ pt.ext = <<>>) => "." \notin Range(pt.base)

AllParts ==
    {pt \in [dir : PartDirs, base : PartBases, ver : PartVers,
             ext : PartExts, sep : PartSeps] : Readable(pt)}

Marker(digits) == IF digits = <<>> THEN <<>> ELSE <<".", "v">> \o digits
MarkerOf(n) == IF n = 0 THEN <<>> ELSE <<".", "v">> \o str(n)

\* The path a directory, a file name and a trailing separator spell out
Spell(dir, name, sep) ==
    (IF dir = <<>> THEN name ELSE dir \o <<Sep>> \o name) \o sep

Compose(pt) == Spell(pt.dir, pt.base \o Marker(pt.ver) \o pt.ext, pt.sep)

\* The name of pt carrying version n, in directory dir
Candidate(pt, dir, n) == Spell(dir, pt.base \o MarkerOf(n) \o pt.ext, pt.sep)

Candidates(pt) == {Candidate(pt, d, n) : d \in {pt.dir, ExtraDir}, n \in 0..MaxVer}

ForcedVersions == (0..MaxForced) \cup {TwoDigits}

InitBump ==
    /\ IdleTemp /\ IdlePaths /\ IdlePods /\ IdleCases /\ IdleRun /\ IdleTrans /\ IdleSig /\ IdleLoop
    /\ bvCalls = <<>>
    /\ \/ \* any string as the path; nothing exists
          \E path \in CharPaths, nv \in {None} \cup (0..MaxForced) :
              bvIn = [mode |-> "chars", path |-> path, new_v |-> nv,
                      extra_dirs |-> <<>>, fs |-> {}, parts |-> NoParts]
       \/ \* a composed path, probed against a disk
          \E pt \in AllParts, ex \in {<<>>, <<ExtraDir>>} :
          \E fs \in SUBSET Candidates(pt) :
              bvIn = [mode |-> "parts", path |-> Compose(pt), new_v |-> None,
                      extra_dirs |-> ex, fs |-> fs, parts |-> pt]
       \/ \* a composed path with a forced version
          \E pt \in AllParts, nv \in ForcedVersions, ex \in {<<>>, <<ExtraDir>>} :
          \E fs \in {{}, Candidates(pt)} :
              bvIn = [mode |-> "parts", path |-> Compose(pt), new_v |-> nv,
                      extra_dirs |-> ex, fs |-> fs, parts |-> pt]

\* bump_version(path, new_v, extra_dirs)
BumpVersion ==
    /\ bvIn.mode # "idle"
    /\ bvCalls = <<>>
    /\ bvCalls' = <<bump_version(bvIn.path, bvIn.new_v, bvIn.extra_dirs, bvIn.fs)>>
    /\ UNCHANGED <<bvIn, nonBumpVars>>

\* bump_version(q, new_v=K) on the path q that bump_version(p, new_v=K) returned
BumpVersionAgain ==
    /\ Len(bvCalls) = 1
    /\ bvIn.new_v # None
    /\ bvCalls' = Append(bvCalls,
           bump_version(bvCalls[1].path, bvIn.new_v, bvIn.extra_dirs, bvIn.fs))
    /\ UNCHANGED <<bvIn, nonBumpVars>>

NextBump == BumpVersion \/ BumpVersionAgain

SpecBump == InitBump /\ [][NextBump]_vars


(***************************************************************************)
(* Claims: bump_version                                                    *)
(***************************************************************************)
\* The number a marker's digits spell
Value(digits) ==
    CASE digits = <<>> -> 0
      [] digits = <<"0">> -> 0
      [] digits = <<"1">> -> 1
      [] digits = <<"0", "1">> -> 1
      [] digits = <<"1", "0">> -> 10

Plain(digits) == digits = <<>> \/ digits[1] # "0"

Probed == bvIn.mode # "idle" /\ bvIn.new_v = None /\ Len(bvCalls) >= 1
Forced == bvIn.mode # "idle" /\ bvIn.new_v # None /\ Len(bvCalls) >= 1
CheckedDirs == Range(bvIn.extra_dirs) \cup {bvIn.parts.dir}

\* C4: without new_v, bump_version(p, extra_dirs=E) returns (p', v) where the
\* name with version v exists neither in p's directory nor in a directory of
\* E, and v is the smallest version at or above p's own with that property.
C4_FirstFreeVersion ==
    (Probed /\ bvIn.mode = "parts") =>
        LET r == bvCalls[1]
            pt == bvIn.parts
            start == Value(pt.ver)
        IN  /\ r.path = Candidate(pt, pt.dir, r.ver)
            /\ r.ver >= start
            /\ \A d \in CheckedDirs : Candidate(pt, d, r.ver) \notin bvIn.fs
            /\ \A u \in start..(r.ver - 1) :
                   \E d \in CheckedDirs : Candidate(pt, d, u) \in bvIn.fs

C4_Witness ==
    /\ Probed /\ bvIn.mode = "parts"
    /\ bvIn.extra_dirs = <<ExtraDir>>
    /\ bvIn.parts.ver = <<"0", "1">>
    /\ bvCalls[1].ver = 3
    /\ Candidate(bvIn.parts, bvIn.parts.dir, 1) \in bvIn.fs
    /\ Candidate(bvIn.parts, bvIn.parts.dir, 2) \notin bvIn.fs
    /\ Candidate(bvIn.parts, ExtraDir, 2) \in bvIn.fs

\* C5: bump_version(p, new_v=K) probes nothing and returns (p', K); p' is p
\* with the marker of its last component dropped for K = 0 and set to .vK for
\* K > 0, before the extension; only the last .vN of the last component is the
\* version; directories, base name, extension and trailing separator stay.
C5_ForcedVersion ==
    Forced =>
        LET r == bvCalls[1]
        IN  /\ r.ver = bvIn.new_v
            /\ r.probed = {}
            /\ bvIn.mode = "parts" =>
                   r.path = Candidate(bvIn.parts, bvIn.parts.dir, bvIn.new_v)

C5_Witness ==
    /\ Forced /\ bvIn.mode = "parts"
    /\ bvIn.new_v = 0
    /\ bvIn.parts.base = MarkerBase
    /\ bvIn.parts.ver = <<"1", "0">>
    /\ bvIn.parts.ext # <<>>
    /\ bvIn.parts.sep # <<>>
    /\ bvIn.parts.dir # <<>>
    /\ bvCalls[1].path \in bvIn.fs

NoCandidateExists ==
    \A d \in CheckedDirs, n \in 0..MaxVer : Candidate(bvIn.parts, d, n) \notin bvIn.fs

\* C6 as stated: when no candidate exists, bump_version(p) returns p unchanged
\* for every p, with version 0 without a marker and N with a marker .vN, for
\* every digit string N (0 and leading zeros included).
C6_UnchangedAnyDigits ==
    (Probed /\ bvIn.mode = "parts" /\ NoCandidateExists) =>
        /\ bvCalls[1].path = bvIn.path
        /\ bvCalls[1].ver = Value(bvIn.parts.ver)

NoDoubleSep(path) == \A i \in 1..(Len(path) - 1) : ~(path[i] = Sep /\ path[i + 1] = Sep)

\* C6 (amended): when no candidate exists, bump_version(p) returns p unchanged
\* and reports N (0 without a marker) for every p with single separators whose
\* marker, if any, is a number N written without a leading zero and not 0; a
\* marker .v0 is dropped and one with leading zeros is rewritten without them,
\* and the number it spells is reported.
C6_UnchangedPlainDigits ==
    /\ (Probed /\ bvIn.mode = "parts" /\ NoCandidateExists) =>
           LET pt == bvIn.parts
           IN  /\ bvCalls[1].ver = Value(pt.ver)
               /\ bvCalls[1].path = Candidate(pt, pt.dir, Value(pt.ver))
               /\ (Plain(pt.ver) /\ pt.ver # <<"0">>) => bvCalls[1].path = bvIn.path
    /\ (Probed /\ bvIn.mode = "chars") =>
           LET old_v == ParsePath(bvIn.path).old_v
           IN  (NoDoubleSep(bvIn.path) /\ Plain(old_v) /\ old_v # <<"0">>) =>
                   /\ bvCalls[1].path = bvIn.path
                   /\ bvCalls[1].ver = int(old_v)

C6_Witness ==
    /\ Probed /\ bvIn.mode = "parts" /\ NoCandidateExists
    /\ bvIn.fs # {}
    /\ bvIn.parts.ver = <<"1", "0">>
    /\ bvIn.parts.ext # <<>>
    /\ bvCalls[1].path = bvIn.path
    /\ bvCalls[1].ver = 10

TwiceForced == bvIn.mode # "idle" /\ bvIn.new_v # None /\ Len(bvCalls) = 2

\* C7 as stated: for every path p and forced version K >= 0,
\* bump_version(q, new_v=K)[0] = q for q = bump_version(p, new_v=K)[0].
C7_ForcedIdempotent ==
    (TwiceForced /\ bvIn.mode = "parts") => bvCalls[2].path = bvCalls[1].path

\* The last component of path, its marker taken out, is a name that carries
\* no further marker
BareNameIsPlain(path) ==
    LET p == ParsePath(path)
        bare == p.file_ \o p.ext_
    IN  bare # <<>> /\ ParsePath(bare).old_v = <<>>

\* C7 (amended): bump_version(q, new_v=K)[0] = q for q = bump_version(p,
\* new_v=K)[0], for every path p and K > 0, and for K = 0 when the last
\* component of p without its marker is non-empty and carries no further .vN.
C7_ForcedIdempotentAmended ==
    (TwiceForced /\ (bvIn.new_v > 0 \/ BareNameIsPlain(bvIn.path))) =>
        /\ bvCalls[2].path = bvCalls[1].path
        /\ bvCalls[2].ver = bvIn.new_v

C7_Witness ==
    /\ TwiceForced /\ bvIn.mode = "parts"
    /\ bvIn.new_v = TwoDigits
    /\ bvIn.parts.base = MarkerBase
    /\ bvIn.parts.ver = <<"1">>
    /\ bvCalls[1].path # bvIn.path
    /\ bvCalls[2].path = bvCalls[1].path


(***************************************************************************)
(* PathManager.model_paths                                                 *)
(***************************************************************************)
MaxNameLen == 2     \* longest case name drawn character by character

NameChars == {".", "v", "1"}
\* Case names whose directory name reads as carrying a version marker
MarkedNames == {<<"m", ".", "v", "1", ".", "x">>, <<"m", ".", "v", "0", ".", "x">>}
CaseNames == UNION {[1..n -> NameChars] : n \in 1..MaxNameLen} \cup MarkedNames
Years == {<<1, 12>>}

WorkDirs == {<<"W">>, <<"O">>}
OutDir == <<"O">>
DataRoot == <<"M">>

\* 'MDTF_{}_{}_{}'.format(name, yr1, yr2)
case_wk_dir(name, yr1, yr2) ==
    <<"M", "D", "T", "F", "_">> \o name \o <<"_">> \o str(yr1) \o <<"_">> \o str(yr2)

model_paths_unsynced(cfg, overwrite, fs) ==
    LET cw == case_wk_dir(cfg.CASENAME, cfg.FIRSTYR, cfg.LASTYR)
        wk == bump_version(os_path_join(cfg.WORKING_DIR, cw), None, <<cfg.OUTPUT_DIR>>, fs)
        out == bump_version(os_path_join(cfg.OUTPUT_DIR, cw), None, <<>>, fs)
    IN  [MODEL_DATA_DIR |-> os_path_join(cfg.MODEL_DATA_ROOT, cfg.CASENAME),
         MODEL_WK_DIR |-> IF overwrite THEN os_path_join(cfg.WORKING_DIR, cw) ELSE wk.path,
         MODEL_OUT_DIR |-> IF overwrite THEN os_path_join(cfg.OUTPUT_DIR, cw) ELSE out.path]

model_paths_own_dir(cfg, overwrite, fs) ==
    LET cw == case_wk_dir(cfg.CASENAME, cfg.FIRSTYR, cfg.LASTYR)
        wk == bump_version(os_path_join(cfg.WORKING_DIR, cw), None, <<>>, fs)
        out == bump_version(os_path_join(cfg.OUTPUT_DIR, cw), wk.ver, <<>>, fs)
    IN  [MODEL_DATA_DIR |-> os_path_join(cfg.MODEL_DATA_ROOT, cfg.CASENAME),
         MODEL_WK_DIR |-> IF overwrite THEN os_path_join(cfg.WORKING_DIR, cw) ELSE wk.path,
         MODEL_OUT_DIR |-> IF overwrite THEN os_path_join(cfg.OUTPUT_DIR, cw) ELSE out.path]

model_paths_blind(cfg, overwrite, fs) ==
    LET cw == case_wk_dir(cfg.CASENAME, cfg.FIRSTYR, cfg.LASTYR)
        wk == bump_version(os_path_join(cfg.WORKING_DIR, cw), None, <<cfg.OUTPUT_DIR>>, {})
        out == bump_version(os_path_join(cfg.OUTPUT_DIR, cw), wk.ver, <<>>, {})
    IN  [MODEL_DATA_DIR |-> os_path_join(cfg.MODEL_DATA_ROOT, cfg.CASENAME),
         MODEL_WK_DIR |-> IF overwrite THEN os_path_join(cfg.WORKING_DIR, cw) ELSE wk.path,
         MODEL_OUT_DIR |-> IF overwrite THEN os_path_join(cfg.OUTPUT_DIR, cw) ELSE out.path]

\* PathManager.model_paths(case, overwrite) for a case given as a dict
model_paths(cfg, overwrite, fs) ==
    LET cw == case_wk_dir(cfg.CASENAME, cfg.FIRSTYR, cfg.LASTYR)
        wk == bump_version(os_path_join(cfg.WORKING_DIR, cw), None, <<cfg.OUTPUT_DIR>>, fs)
        out == bump_version(os_path_join(cfg.OUTPUT_DIR, cw), wk.ver, <<>>, fs)
    IN  [MODEL_DATA_DIR |-> os_path_join(cfg.MODEL_DATA_ROOT, cfg.CASENAME),
         MODEL_WK_DIR |-> IF overwrite THEN os_path_join(cfg.WORKING_DIR, cw) ELSE wk.path,
         MODEL_OUT_DIR |-> IF overwrite THEN os_path_join(cfg.OUTPUT_DIR, cw) ELSE out.path]

\* The case directories of versions 0..MaxVer in WORKING_DIR and OUTPUT_DIR,
\* named as earlier runs named them
CaseDirs(cfg) ==
    LET cw == case_wk_dir(cfg.CASENAME, cfg.FIRSTYR, cfg.LASTYR)
    IN  {bump_version(os_path_join(d, cw), n, <<>>, {}).path :
            d \in {cfg.WORKING_DIR, cfg.OUTPUT_DIR}, n \in 0..MaxVer}

InitPaths ==
    /\ IdleTemp /\ IdleBump /\ IdlePods /\ IdleCases /\ IdleRun /\ IdleTrans /\ IdleSig /\ IdleLoop
    /\ \E w \in WorkDirs, name \in CaseNames, yrs \in Years :
          mpCfg = [mode |-> "run", WORKING_DIR |-> w, OUTPUT_DIR |-> OutDir,
                   MODEL_DATA_ROOT |-> DataRoot, CASENAME |-> name,
                   FIRSTYR |-> yrs[1], LASTYR |-> yrs[2]]
    /\ mpFs \in SUBSET CaseDirs(mpCfg)
    /\ mpCalls = <<>>

\* model_paths(case, overwrite), called once and then a second time
ModelPaths ==
    /\ mpCfg.mode = "run"
    /\ Len(mpCalls) < 2
    /\ \E overwrite \in BOOLEAN :
          mpCalls' = Append(mpCalls,
              [overwrite |-> overwrite, fs |-> mpFs,
               d |-> model_paths(mpCfg, overwrite, mpFs)])
    /\ UNCHANGED <<mpCfg, mpFs, nonPathVars>>

\* Between the two calls the run creates the directories model_paths returned
\* (check_dirs with create=True), both or only one of them so far
CreateCaseDirs ==
    /\ Len(mpCalls) = 1
    /\ mpFs = mpCalls[1].fs
    /\ LET d == mpCalls[Len(mpCalls)].d
       IN  \E new \in (SUBSET {d.MODEL_WK_DIR, d.MODEL_OUT_DIR}) \ {{}} :
              /\ new \cap mpFs = {}
              /\ mpFs' = mpFs \cup new
    /\ UNCHANGED <<mpCfg, mpCalls, nonPathVars>>

NextPaths == ModelPaths \/ CreateCaseDirs

SpecPaths == InitPaths /\ [][NextPaths]_vars

(***************************************************************************)
(* Claims about model_paths                                                *)
(***************************************************************************)
LastComponent(path) == os_path_split(path)[2]

VersionOf(path) ==
    LET p == ParsePath(path) IN IF p.old_v = <<>> THEN 0 ELSE int(p.old_v)

SameButVersion(p, q) ==
    LET a == ParsePath(p)
        b == ParsePath(q)
    IN  /\ a.dir_ = b.dir_ /\ a.file_ = b.file_
        /\ a.ext_ = b.ext_ /\ a.final_sep = b.final_sep

NoOverwrite(i) == i \in 1..Len(mpCalls) /\ ~mpCalls[i].overwrite

\* C2: model_paths(case, overwrite=False) returns MODEL_WK_DIR and
\* MODEL_OUT_DIR with the same last path component, whatever the disk holds.
C2_VersionsSynchronized ==
    \A i \in 1..Len(mpCalls) :
        NoOverwrite(i) =>
            LastComponent(mpCalls[i].d.MODEL_WK_DIR)
                = LastComponent(mpCalls[i].d.MODEL_OUT_DIR)

\* The versioned directory exists in OUTPUT_DIR only, so that WORKING_DIR alone
\* would not have led to the version returned
C2_Witness ==
    /\ NoOverwrite(1)
    /\ mpCfg.WORKING_DIR # mpCfg.OUTPUT_DIR
    /\ VersionOf(mpCalls[1].d.MODEL_WK_DIR) = MaxVer
    /\ \A f \in mpCalls[1].fs : os_path_split(f)[1] = mpCfg.OUTPUT_DIR
    /\ LastComponent(mpCalls[1].d.MODEL_WK_DIR)
          = LastComponent(mpCalls[1].d.MODEL_OUT_DIR)

CalledTwice == Len(mpCalls) = 2 /\ NoOverwrite(1) /\ NoOverwrite(2)

DifferOnlyInVersion ==
    /\ SameButVersion(mpCalls[1].d.MODEL_WK_DIR, mpCalls[2].d.MODEL_WK_DIR)
    /\ SameButVersion(mpCalls[1].d.MODEL_OUT_DIR, mpCalls[2].d.MODEL_OUT_DIR)

VersionsMatch(i) ==
    VersionOf(mpCalls[i].d.MODEL_WK_DIR) = VersionOf(mpCalls[i].d.MODEL_OUT_DIR)

CreatedBetween ==
    {mpCalls[1].d.MODEL_WK_DIR, mpCalls[1].d.MODEL_OUT_DIR} \cap mpCalls[2].fs # {}

MaxTokens == 3      \* most tokens in a --pods collection

Example == <<"example">>
Examples == <<"example", "s">>
All == <<"all">>
Atmos == <<"atmos">>
Ocean == <<"ocean">>
Example2 == <<"example", "2">>
Wk == <<"wk">>
Hidden == <<"_", "tmp">>
Bogus == <<"bogus">>

\* Entries of the diagnostics directory; one POD is named as a realm is
DiagDirs == {Example2, Ocean, Wk, Hidden}
Tokens == {Example, Examples, All, Atmos, Ocean, Example2, Wk, Bogus}

\* The names above as sort(key=str.lower) orders them
NameOrder == <<Hidden, All, Atmos, Bogus, Example, Example2, Examples, Ocean, Wk>>
sorted(S) == SelectSeq(NameOrder, LAMBDA n : n \in S)

Str(x) == [kind |-> "str", val |-> x]
List(x) == [kind |-> "list", val |-> x]
NoneValue == [kind |-> "none"]

\* Contents of a settings file: unreadable, an object without the 'settings'
\* key (empty, or holding other keys), or 'settings' with its 'realm'
SettingsFiles ==
    { [ok |-> FALSE, json |-> j] : j \in {"unreadable", "empty", "other_keys"} } \cup
    { [ok |-> TRUE, realm |-> r] :
        r \in {NoneValue, Str(Atmos), Str(Ocean), List(<<Ocean>>), List(<<Atmos, Ocean>>)} }

\* _read_settings(pod): the dict read, or what is left of it when read_json or
\* "assert 'settings' in d" raised; the error is logged and not raised
_read_settings(file) ==
    IF file.ok
    THEN [empty |-> FALSE, settings |-> TRUE, realm |-> file.realm, logged |-> FALSE]
    ELSE [empty |-> file.json # "other_keys", settings |-> FALSE, logged |-> TRUE]

\* get_pod_list: the directory listing without '_' and '.' entries, sorted
get_pod_list(listing) ==
    sorted({n \in listing : ~StartsWith(n, "_") /\ ~StartsWith(n, ".")})

\* util.to_iter(x, tuple)
to_iter(x) ==
    CASE x.kind = "none" -> <<>>
      [] x.kind = "str"  -> <<x.val>>
      [] OTHER           -> x.val

\* util.coerce_to_iter(x, set)
coerce_to_iter(x) ==
    CASE x.kind = "none" -> {}
      [] x.kind = "str"  -> {x.val}
      [] x.kind = "set"  -> x.val
      [] OTHER           -> Range(x.val)

KeyEq(k1, k2) == k1.kind = k2.kind /\ k1.val = k2.val

\* A realm index that files a POD of several realms under its first realm
realms_append_split(realms, key, p) ==
    Append(realms, [key |-> IF key.kind = "tuple" THEN [kind |-> "str", val |-> key.val[1]] ELSE key,
                    pods |-> <<p>>])

\* self.realms[_realm].append(p) on a defaultdict(list), keys in insertion order
realms_append(realms, key, p) ==
    IF \E i \in 1..Len(realms) : KeyEq(realms[i].key, key)
    THEN [i \in 1..Len(realms) |->
            IF KeyEq(realms[i].key, key)
            THEN [realms[i] EXCEPT !.pods = Append(@, p)]
            ELSE realms[i]]
    ELSE Append(realms, [key |-> key, pods |-> <<p>>])

\* The loop of load_pod_settings over pod_list, from its i-th entry on
RECURSIVE load_loop(_, _, _, _)
load_loop(i, pl, files, acc) ==
    IF i > Len(pl) THEN acc
    ELSE LET p == pl[i]
             d == _read_settings(files[p])
             seen == [acc EXCEPT !.logged = IF d.logged THEN @ \cup {p} ELSE @]
             _realm == to_iter(d.realm)
         IN  IF d.empty
             THEN load_loop(i + 1, pl, files, [seen EXCEPT !.bad_pods = Append(@, p)])
             ELSE IF ~d.settings
             THEN \* self.pods[p] = d, then d['settings'] raises
                  [seen EXCEPT !.pods = Append(@, p), !.exc = "KeyError"]
             ELSE IF Len(_realm) = 0
             THEN load_loop(i + 1, pl, files, [seen EXCEPT !.pods = Append(@, p)])
             ELSE IF Len(_realm) = 1
             THEN load_loop(i + 1, pl, files,
                    [seen EXCEPT !.pods = Append(@, p),
                                 !.realm_list = @ \cup {_realm[1]},
                                 !.realms = realms_append(@, Str(_realm[1]), p)])
             ELSE load_loop(i + 1, pl, files,
                    [seen EXCEPT !.pods = Append(@, p),
                                 !.realm_list = @ \cup Range(_realm),
                                 !.realms = realms_append(@, [kind |-> "tuple", val |-> _realm], p)])

\* load_pod_settings(): pod_data, all_realms and pod_realms of the configurer;
\* pod_list and realm_list are assigned after the loop only
load_pod_settings(listing, files) ==
    LET pl == get_pod_list(listing)
        r == load_loop(1, pl, files,
                [pods |-> <<>>, realms |-> <<>>, realm_list |-> {}, bad_pods |-> <<>>,
                 logged |-> {}, exc |-> "none"])
        done == r.exc = "none"
    IN  [pod_data |-> r.pods,
         pod_list |-> IF done THEN SelectSeq(pl, LAMBDA p : p \notin Range(r.bad_pods))
                      ELSE <<>>,
         all_realms |-> IF done THEN sorted(r.realm_list) ELSE <<>>,
         pod_realms |-> r.realms,
         logged |-> r.logged,
         exc |-> r.exc]

\* The orders in which iterating over a set can yield its elements
Orders(S) == {o \in [1..Cardinality(S) -> S] : Range(o) = S}

IsExample(pod) == StartsWith(pod, "example")

RECURSIVE extend_by_any_realm(_, _, _, _)
extend_by_any_realm(i, pod_realms, realms, lst) ==
    IF i > Len(pod_realms) THEN lst
    ELSE extend_by_any_realm(i + 1, pod_realms, realms,
            IF coerce_to_iter(pod_realms[i].key) \cap realms # {}
            THEN lst \o pod_realms[i].pods
            ELSE lst)

\* for key in pod_realms: if coerce_to_iter(key, set).issubset(realms):
\*     pod_list.extend(pod_realms[key])
RECURSIVE extend_by_realm(_, _, _, _)
extend_by_realm(i, pod_realms, realms, lst) ==
    IF i > Len(pod_realms) THEN lst
    ELSE extend_by_realm(i + 1, pod_realms, realms,
            IF coerce_to_iter(pod_realms[i].key) \subseteq realms
            THEN lst \o pod_realms[i].pods
            ELSE lst)

\* The PODs asked for by name: args.difference(all_realms) that are in pod_data
named_pods(cli_pods, reg) ==
    (coerce_to_iter(cli_pods) \ Range(reg.all_realms)) \cap Range(reg.pod_data)

\* if not self.pod_list: print(...); exit()
finish(lst, warned) == [pod_list |-> lst, warned |-> warned, exited |-> lst = <<>>]

parse_pod_list_all_first(cli_pods, reg, cur, named) ==
    LET args == coerce_to_iter(cli_pods)
    IN  IF All \in args
        THEN finish(SelectSeq(reg.pod_data, LAMBDA pod : ~IsExample(pod)), {})
        ELSE finish(SelectSeq(reg.pod_data, IsExample), {})

\* parse_pod_list; cur is self.pod_list before the call, named the order in
\* which list(pods) yields the PODs asked for by name
parse_pod_list(cli_pods, reg, cur, named) ==
    LET args == coerce_to_iter(cli_pods)
    IN  IF Example \in args \/ Examples \in args
        THEN finish(SelectSeq(reg.pod_data, IsExample), {})
        ELSE IF All \in args
        THEN finish(SelectSeq(reg.pod_data, LAMBDA pod : ~IsExample(pod)), {})
        ELSE LET realms == args \cap Range(reg.all_realms)
                 rest == args \ Range(reg.all_realms)
                 lst == extend_by_realm(1, reg.pod_realms, realms, cur) \o named
             IN  finish(SelectSeq(lst, LAMBDA pod : ~IsExample(pod)),
                        rest \ Range(reg.pod_data))

FilesFor(n) == IF n = Hidden THEN {[ok |-> FALSE, json |-> "unreadable"]} ELSE SettingsFiles

InitPods ==
    /\ IdleTemp /\ IdleBump /\ IdlePaths /\ IdleCases /\ IdleRun /\ IdleTrans /\ IdleSig /\ IdleLoop
    /\ \E listing \in SUBSET DiagDirs :
          \E files \in [listing -> SettingsFiles] :
             /\ \A n \in listing : files[n] \in FilesFor(n)
             /\ \E S \in SUBSET Tokens :
                   /\ Cardinality(S) <= MaxTokens
                   /\ \/ podIn = [mode |-> "run", listing |-> listing, files |-> files,
                                  pods |-> [kind |-> "set", val |-> S]]
                      \/ /\ Cardinality(S) = 1
                         /\ \E t \in S :
                               podIn = [mode |-> "run", listing |-> listing,
                                        files |-> files, pods |-> Str(t)]
    /\ podReg = [pod_data |-> <<>>, pod_list |-> <<>>, all_realms |-> <<>>,
                 pod_realms |-> <<>>, logged |-> {}, exc |-> "none"]
    /\ pod_list = <<>>
    /\ podOut = [state |-> "start"]

\* MDTFConfigurer.__init__: load pod data
LoadPodSettings ==
    /\ podIn.mode = "run"
    /\ podOut.state = "start"
    /\ podReg' = load_pod_settings(podIn.listing, podIn.files)
    /\ podOut' = [state |-> IF podReg'.exc = "none" THEN "loaded" ELSE "raised"]
    /\ UNCHANGED <<podIn, pod_list, nonPodVars>>

\* MDTFConfigurer.__init__: parse_mdtf_args -> parse_pod_list(cli_obj)
ParsePodList ==
    /\ podIn.mode = "run"
    /\ podOut.state = "loaded"
    /\ \E named \in Orders(named_pods(podIn.pods, podReg)) :
          LET r == parse_pod_list(podIn.pods, podReg, pod_list, named)
          IN  /\ pod_list' = r.pod_list
              /\ podOut' = [state |-> "parsed", warned |-> r.warned, exited |-> r.exited]
    /\ UNCHANGED <<podIn, podReg, nonPodVars>>

NextPods == LoadPodSettings \/ ParsePodList

SpecPods == InitPods /\ [][NextPods]_vars

(***************************************************************************)
(* Claims about parse_pod_list                                             *)
(***************************************************************************)
Parsed == podOut.state = "parsed"

Selector == coerce_to_iter(podIn.pods)

\* The PODs of the diagnostics directory whose settings file could be read
Registered ==
    {n \in podIn.listing :
        ~StartsWith(n, "_") /\ ~StartsWith(n, ".") /\ podIn.files[n].ok}

RealmsOf(n) == Range(to_iter(podIn.files[n].realm))

KnownRealms == UNION {RealmsOf(n) : n \in Registered}

\* C9: with 'example' or 'examples' in the selector parse_pod_list yields
\* exactly the registered PODs whose name starts with 'example', whatever else
\* the selector holds; otherwise, with 'all' in it, every registered POD whose
\* name does not start with 'example', each exactly once.
C9_ExampleAndAll ==
    Parsed =>
        /\ (Example \in Selector \/ Examples \in Selector) =>
              Range(pod_list) = {n \in Registered : IsExample(n)}
        /\ (Example \notin Selector /\ Examples \notin Selector /\ All \in Selector) =>
              /\ Range(pod_list) = {n \in Registered : ~IsExample(n)}
              /\ NoDuplicates(pod_list)

\* 'examples' next to 'all' and a POD name, with PODs of both sorts registered
C9_Witness ==
    /\ Parsed
    /\ Selector = {Examples, All, Wk}
    /\ {Example2, Wk, Ocean} \subseteq Registered
    /\ pod_list = <<Example2>>
    /\ ~podOut.exited

RealmTokens == Selector \cap KnownRealms

OtherTokens == Selector \ KnownRealms

\* C10: with none of 'example', 'examples', 'all' in the selector the PODs
\* produced are those under every realm key whose realms are all requested,
\* plus the remaining tokens that name a registered POD, minus the PODs whose
\* name starts with 'example'; the tokens that are neither a realm nor a POD
\* name are warned about and dropped, and only an empty result ends the run.
C10_RealmsAndNames ==
    (Parsed /\ Selector \cap {Example, Examples, All} = {}) =>
        /\ Range(pod_list) =
              {n \in Registered :
                  /\ ~IsExample(n)
                  /\ \/ RealmsOf(n) # {} /\ RealmsOf(n) \subseteq RealmTokens
                     \/ n \in OtherTokens}
        /\ podOut.warned = OtherTokens \ Registered
        /\ podOut.exited <=> pod_list = <<>>

\* Both realms requested next to an unknown token: the POD under the tuple
\* key is selected, the unknown token is dropped and the run goes on
C10_Witness ==
    /\ Parsed
    /\ Selector = {Atmos, Ocean, Bogus}
    /\ Registered = {Example2, Ocean, Wk}
    /\ RealmsOf(Wk) = {Atmos, Ocean}
    /\ RealmsOf(Ocean) = {Ocean}
    /\ RealmsOf(Example2) = {Atmos}
    /\ pod_list = <<Ocean, Wk>>
    /\ podOut.warned = {Bogus}
    /\ ~podOut.exited

(***************************************************************************)
(* Claims about load_pod_settings                                          *)
(***************************************************************************)
LoadEnded == podIn.mode = "run" /\ podOut.state # "start"

\* The PODs of the listing whose settings file is unreadable or has no
\* 'settings' key
InvalidPods ==
    {n \in podIn.listing :
        ~StartsWith(n, "_") /\ ~StartsWith(n, ".") /\ ~podIn.files[n].ok}

IndexedPods == UNION {Range(podReg.pod_realms[i].pods) : i \in 1..Len(podReg.pod_realms)}

\* C15: load_pod_settings() treats a POD whose settings file is unreadable or
\* lacks the 'settings' key as invalid: it is logged, it is absent from pods,
\* pod_list and the realm index, and the other PODs are loaded without an
\* exception.
C15_InvalidPodsSkipped ==
    LoadEnded =>
        /\ podReg.exc = "none"
        /\ \A n \in InvalidPods :
              /\ n \in podReg.logged
              /\ n \notin Range(podReg.pod_data)
              /\ n \notin Range(podReg.pod_list)
              /\ n \notin IndexedPods
        /\ Range(podReg.pod_data) = Registered

(***************************************************************************)
(* parse_case_list, parse_case and set_case_pod_list                       *)
(***************************************************************************)
MaxCases == 2       \* longest case_list read from the input file

\* Values are sequences: '' and [] are the empty one; a value names where it
\* was given
Empty == <<>>
CaseValue == <<"case">>
CliValue == <<"cli">>
CasePods == <<Wk>>
\* a pod_list of the input file naming a POD the diagnostics directory lacks
UnknownPods == <<Bogus>>
GlobalPods == <<Ocean, Wk>>

\* dict operations
NoKeys == <<>>
Has(d, k) == k \in DOMAIN d
get(d, k, default) == IF Has(d, k) THEN d[k] ELSE default
set(d, k, v) == (k :> v) @@ d
update_missing(d, e) == d @@ e
update(d, e) == e @@ d
setdefault(d, k, v) == IF Has(d, k) THEN d ELSE set(d, k, v)
pop(d, k) == [j \in DOMAIN d \ {k} |-> d[j]]
Truthy(v) == v # Empty

\* Entries of the case_list of the input file
Entries ==
    { name @@ model @@ first @@ last @@ conv @@ pods @@ root :
        name \in {NoKeys, "CASENAME" :> Empty, "CASENAME" :> CaseValue},
        model \in {NoKeys, "model" :> CaseValue,
                   ("model" :> CaseValue) @@ ("experiment" :> CaseValue)},
        first \in {NoKeys, "FIRSTYR" :> Empty, "FIRSTYR" :> CaseValue},
        last \in {NoKeys, "LASTYR" :> CaseValue},
        conv \in {NoKeys, "convention" :> Empty, "convention" :> CaseValue},
        pods \in {NoKeys, "pod_list" :> Empty, "pod_list" :> CasePods,
                  "pod_list" :> UnknownPods},
        root \in {NoKeys, "root_dir" :> CaseValue} }

\* The entries used in lists of more than one case
ListEntries ==
    { e \in Entries :
        /\ DOMAIN e \subseteq {"CASENAME", "FIRSTYR", "LASTYR", "convention", "pod_list"}
        /\ {"LASTYR", "convention"} \subseteq DOMAIN e
        /\ \A k \in DOMAIN e : Truthy(e[k]) }

CaseLists ==
    {<<>>} \cup {<<e>> : e \in Entries}
           \cup UNION {[1..n -> ListEntries] : n \in 2..MaxCases}

\* The MODEL group of the command line; _populate_from_cli keeps the non-empty
\* items only
ModelGroups ==
    { name @@ model @@ years @@ conv :
        name \in {NoKeys, "CASENAME" :> CliValue},
        model \in {NoKeys, ("model" :> CliValue) @@ ("experiment" :> CliValue)},
        years \in {NoKeys, ("FIRSTYR" :> CliValue) @@ ("LASTYR" :> CliValue)},
        conv \in {NoKeys, "convention" :> CliValue} }

set_case_pod_list_global(case, is_default_pods, pods) == pods

\* set_case_pod_list(case, cli_obj)
set_case_pod_list(case, is_default_pods, pods) ==
    IF ~is_default_pods \/ ~Truthy(get(case, "pod_list", Empty))
    THEN pods
    ELSE case["pod_list"]

first_unset_key(d) ==
    IF ~Has(d, "FIRSTYR") THEN <<"FIRSTYR">>
    ELSE IF ~Has(d, "LASTYR") THEN <<"LASTYR">>
    ELSE IF ~Has(d, "convention") THEN <<"convention">>
    ELSE Empty

\* The first of FIRSTYR, LASTYR, convention without a value; Empty if none
first_unset(d) ==
    IF ~Truthy(get(d, "FIRSTYR", Empty)) THEN <<"FIRSTYR">>
    ELSE IF ~Truthy(get(d, "LASTYR", Empty)) THEN <<"LASTYR">>
    ELSE IF ~Truthy(get(d, "convention", Empty)) THEN <<"convention">>
    ELSE Empty

\* parse_case((n, d), cli_d, cli_obj): the entry as parse_case leaves it, and
\* whether it is returned (kept) or None is
parse_case(n, d, cli_d, is_default_pods, pods) ==
    LET d1 == IF ~Has(d, "CASE_ROOT_DIR") /\ Has(d, "root_dir")
              THEN set(pop(d, "root_dir"), "CASE_ROOT_DIR", d["root_dir"])
              ELSE d
        case_convention == get(d1, "convention", Empty)
        d2 == update(d1, cli_d)
        d3 == IF Truthy(case_convention) THEN set(d2, "convention", case_convention) ELSE d2
        d4 == setdefault(d3, "model", get(d3, "convention", Empty))
        d5 == setdefault(d4, "experiment", Empty)
        d6 == setdefault(d5, "CASENAME", d5["model"] \o <<"_">> \o d5["experiment"])
    IN  IF ~(Has(d3, "CASENAME") \/ (Has(d3, "model") /\ Has(d3, "experiment")))
        THEN [kept |-> FALSE, n |-> n, d |-> d3, warning |-> <<"CASENAME">>]
        ELSE IF first_unset(d6) # Empty
        THEN [kept |-> FALSE, n |-> n, d |-> d6, warning |-> first_unset(d6)]
        ELSE [kept |-> TRUE, n |-> n, warning |-> Empty,
              d |-> set(d6, "pod_list", set_case_pod_list(d6, is_default_pods, pods))]

\* parse_case_list(cli_obj)
parse_case_list(cli, pods) ==
    LET cli_d == IF ~Has(cli.MODEL, "CASE_ROOT_DIR") /\ Truthy(cli.root_dir)
                 THEN set(cli.MODEL, "CASE_ROOT_DIR", cli.root_dir)
                 ELSE cli.MODEL
        case_list_in == IF cli.case_list = <<>> THEN <<cli_d>> ELSE cli.case_list
        parsed == [i \in 1..Len(case_list_in) |->
                     parse_case(i - 1, case_list_in[i], cli_d, cli.is_default_pods, pods)]
        kept == SelectSeq(parsed, LAMBDA r : r.kept)
    IN  [case_list |-> [i \in 1..Len(kept) |-> kept[i].d],
         parsed |-> parsed,
         exit |-> IF kept = <<>> THEN 1 ELSE None]

InitCases ==
    /\ IdleTemp /\ IdleBump /\ IdlePaths /\ IdlePods /\ IdleRun /\ IdleTrans /\ IdleSig /\ IdleLoop
    /\ \E cl \in CaseLists, mg \in ModelGroups, rd \in {Empty, CliValue}, df \in BOOLEAN :
          caseIn = [mode |-> "run", case_list |-> cl, MODEL |-> mg, root_dir |-> rd,
                    is_default_pods |-> df, pod_list |-> GlobalPods]
    /\ case_list = <<>>
    /\ caseOut = [state |-> "start"]

\* MDTFConfigurer.__init__: parse_mdtf_args -> parse_case_list(cli_obj)
ParseCaseList ==
    /\ caseIn.mode = "run"
    /\ caseOut.state = "start"
    /\ LET r == parse_case_list(caseIn, caseIn.pod_list)
       IN  /\ case_list' = r.case_list
           /\ caseOut' = [state |-> "parsed", parsed |-> r.parsed, exit |-> r.exit]
    /\ UNCHANGED <<caseIn, nonCaseVars>>

NextCases == ParseCaseList

SpecCases == InitCases /\ [][NextCases]_vars

(***************************************************************************)
(* Claims about parse_case_list                                            *)
(***************************************************************************)
CasesParsed == caseOut.state = "parsed"

\* The entries of the input case_list, by position
EntryIdx == 1..Len(caseIn.case_list)

\* The positions of the entries parse_case returned
KeptIdx == {i \in 1..Len(caseOut.parsed) : caseOut.parsed[i].kept}

\* The position in the input of the j-th case of the final list
NthKept(j) == CHOOSE i \in KeptIdx : Cardinality({k \in KeptIdx : k <= i}) = j

\* C12: for every key present both in a case-list entry and in the non-empty
\* CLI MODEL overrides, the merged case holds the CLI value.
C12_CliValueWins ==
    CasesParsed =>
        \A i \in EntryIdx :
            \A k \in DOMAIN caseIn.case_list[i] \cap DOMAIN caseIn.MODEL :
                caseOut.parsed[i].d[k] = caseIn.MODEL[k]

\* C12 (amended): for every key other than 'convention' present both in a
\* case-list entry and in the CLI MODEL overrides the merged case holds the CLI
\* value; 'convention' keeps the entry's value when that is not empty, and
\* holds the CLI value when the entry's is empty.
C12_CliValueWinsButConvention ==
    CasesParsed =>
        \A i \in EntryIdx :
            \A k \in DOMAIN caseIn.case_list[i] \cap DOMAIN caseIn.MODEL :
                caseOut.parsed[i].d[k] =
                    IF k = "convention" /\ Truthy(caseIn.case_list[i][k])
                    THEN caseIn.case_list[i][k]
                    ELSE caseIn.MODEL[k]

C12_Witness ==
    /\ CasesParsed
    /\ Len(caseIn.case_list) = 1
    /\ DOMAIN caseIn.MODEL = {"CASENAME", "FIRSTYR", "LASTYR", "convention"}
    /\ {"CASENAME", "FIRSTYR", "convention"} \subseteq DOMAIN caseIn.case_list[1]
    /\ caseIn.case_list[1]["convention"] = CaseValue
    /\ caseIn.case_list[1]["CASENAME"] = CaseValue
    /\ Len(case_list) = 1
    /\ case_list[1]["CASENAME"] = CliValue
    /\ case_list[1]["FIRSTYR"] = CliValue
    /\ case_list[1]["convention"] = CaseValue

\* The value of key k of entry i after the merge with the CLI overrides
MergedKeys(i) == DOMAIN caseIn.case_list[i] \cup DOMAIN caseIn.MODEL

MergedValue(i, k) ==
    IF k = "convention" /\ Truthy(get(caseIn.case_list[i], k, Empty))
    THEN caseIn.case_list[i][k]
    ELSE get(caseIn.MODEL, k, get(caseIn.case_list[i], k, Empty))

HasName(i) ==
    \/ "CASENAME" \in MergedKeys(i)
    \/ {"model", "experiment"} \subseteq MergedKeys(i)

SkippedWarned ==
    \A i \in EntryIdx : ~caseOut.parsed[i].kept => caseOut.parsed[i].warning # Empty

KeptInOrder ==
    /\ Len(case_list) = Cardinality(KeptIdx)
    /\ \A j \in 1..Len(case_list) :
          /\ case_list[j] = caseOut.parsed[NthKept(j)].d
          /\ \A k \in DOMAIN caseIn.case_list[NthKept(j)] \ {"pod_list", "root_dir"} :
                case_list[j][k] = MergedValue(NthKept(j), k)

\* C13: parse_case_list keeps a case-list entry if and only if, after the merge
\* with the CLI overrides, it has CASENAME or both model and experiment, and it
\* has FIRSTYR, LASTYR and convention; every other entry is skipped with a
\* warning, and the kept entries appear in their original relative order.
C13_KeptIffHasKeys ==
    (CasesParsed /\ caseIn.case_list # <<>>) =>
        /\ \A i \in EntryIdx :
              caseOut.parsed[i].kept <=>
                  /\ HasName(i)
                  /\ {"FIRSTYR", "LASTYR", "convention"} \subseteq MergedKeys(i)
        /\ SkippedWarned
        /\ KeptInOrder

\* C13 (amended): an entry is kept if and only if, after the merge, it has the
\* key CASENAME or both keys model and experiment, and FIRSTYR, LASTYR and
\* convention are set to non-empty values; every other entry is skipped with a
\* warning, and the kept entries appear in their original relative order.
C13_KeptIffHasValues ==
    (CasesParsed /\ caseIn.case_list # <<>>) =>
        /\ \A i \in EntryIdx :
              caseOut.parsed[i].kept <=>
                  /\ HasName(i)
                  /\ \A k \in {"FIRSTYR", "LASTYR", "convention"} :
                        Truthy(MergedValue(i, k))
        /\ SkippedWarned
        /\ KeptInOrder

\* The first of two entries is skipped for its missing FIRSTYR, the second kept
C13_Witness ==
    /\ CasesParsed
    /\ Len(caseIn.case_list) = 2
    /\ caseIn.MODEL = NoKeys
    /\ "FIRSTYR" \notin DOMAIN caseIn.case_list[1]
    /\ "CASENAME" \in DOMAIN caseIn.case_list[1]
    /\ caseOut.parsed[1].warning = <<"FIRSTYR">>
    /\ caseOut.parsed[2].kept
    /\ Len(case_list) = 1
    /\ caseOut.exit = None

\* The pod_list the j-th case of the final list was given in the input
OwnPods(j) ==
    IF caseIn.case_list = <<>> THEN Empty
    ELSE get(caseIn.case_list[NthKept(j)], "pod_list", Empty)

\* C14: the pod_list of every valid case is the global POD selection, unless
\* the CLI pods setting was left at its default and the case entry itself
\* gives a non-empty pod_list, which it then keeps.
C14_CasePodList ==
    CasesParsed =>
        \A j \in 1..Len(case_list) :
            case_list[j]["pod_list"] =
                IF caseIn.is_default_pods /\ Truthy(OwnPods(j))
                THEN OwnPods(j)
                ELSE caseIn.pod_list

C14_Witness ==
    /\ CasesParsed
    /\ Len(case_list) = 2
    /\ caseIn.is_default_pods
    /\ OwnPods(1) = CasePods
    /\ OwnPods(2) = Empty
    /\ case_list[1]["pod_list"] = CasePods
    /\ case_list[2]["pod_list"] = GlobalPods

(***************************************************************************)
(* The start of a run: the constructor's parsing steps, verify_paths and   *)
(* main_loop, for MDTFConfigurer (src/configs.py) and for MDTFFramework    *)
(* (framework/framework.py)                                                *)
(***************************************************************************)
Variants == {"MDTFConfigurer", "MDTFFramework"}

\* The root directories of the PathManager
RootKeys == {"CODE_ROOT", "OBS_DATA_ROOT", "MODEL_DATA_ROOT", "WORKING_DIR", "OUTPUT_DIR"}

\* cli_obj.config: the paths of the command line.  WORKING_DIR is a directory
\* of its own, the same path as OUTPUT_DIR, or unset ('')
WorkingDirs == {<<"WORKING_DIR">>, <<"OUTPUT_DIR">>, Empty}
CliPaths(wk) == [k \in RootKeys |-> IF k = "WORKING_DIR" THEN wk ELSE <<k>>]

\* PathManager.__init__ / _PathManager.parse: every root is taken from the
\* command line, and "if not self.WORKING_DIR" defaults it to OUTPUT_DIR
RootPaths(d) ==
    [d EXCEPT !["WORKING_DIR"] = IF ~Truthy(@) THEN d["OUTPUT_DIR"] ELSE @]

\* What startup can find on disk: the roots, and a directory a previous run
\* left in WORKING_DIR
OldRun(p) == p["WORKING_DIR"] \o <<"old">>
FileSystems(p) ==
    {fs \in SUBSET ({p[k] : k \in RootKeys} \cup {OldRun(p)}) : DiskClosed(fs)}

\* The exit status of the process: exit() is exit(None), which is status 0;
\* an exception nobody catches ends the interpreter with status 1
ExitNoArg == 0
ExitOne == 1
ExitUncaught == 1

\* check_dirs creating every directory it misses, whatever "create" says
RECURSIVE check_dirs_create_all(_, _, _)
check_dirs_create_all(ds, create, fs) ==
    IF ds = <<>> THEN [fs |-> fs, exc |-> "none", made |-> <<>>]
    ELSE IF Head(ds) \in fs THEN check_dirs_create_all(Tail(ds), create, fs)
    ELSE LET r == check_dirs_create_all(Tail(ds), create, fs \cup {Head(ds)})
         IN  [r EXCEPT !.made = <<Head(ds)>> \o @]

\* check_dirs(*dirs, create): the disk afterwards, the exception raised, and
\* the directories os.makedirs was called for
RECURSIVE check_dirs(_, _, _)
check_dirs(ds, create, fs) ==
    IF ds = <<>> THEN [fs |-> fs, exc |-> "none", made |-> <<>>]
    ELSE IF Head(ds) \in fs THEN check_dirs(Tail(ds), create, fs)
    ELSE IF create
         THEN LET r == check_dirs(Tail(ds), create, fs \cup {Head(ds)})
              IN  [r EXCEPT !.made = <<Head(ds)>> \o @]
    ELSE [fs |-> fs, exc |-> "FileNotFoundError", made |-> <<>>]

\* util.check_required_dirs(already_exist, create_if_nec)
check_required_dirs(already_exist, create_if_nec, fs) ==
    IF \E i \in 1..Len(already_exist) : already_exist[i] \notin fs
    THEN [fs |-> fs, exc |-> "OSError", made |-> <<>>]
    ELSE check_dirs(create_if_nec, TRUE, fs)

\* the checks of verify_paths on the disk its first statement left
check_roots(variant, p, fs) ==
    LET required == <<p["CODE_ROOT"], p["OBS_DATA_ROOT"]>>
        created == <<p["MODEL_DATA_ROOT"], p["WORKING_DIR"], p["OUTPUT_DIR"]>>
    IN  IF variant = "MDTFFramework"
        THEN check_required_dirs(required, created, fs)
        ELSE LET r == check_dirs(required, FALSE, fs)
             IN  IF r.exc # "none" THEN r ELSE check_dirs(created, TRUE, r.fs)

\* the directory checks called on their own, as the unit tests call them
DirectoryCheck ==
    /\ run.mode = "check" /\ run.phase = "start"
    /\ LET r == check_roots(run.variant, run.paths, run.fs)
       IN  run' = [run EXCEPT !.fs = r.fs, !.exc = r.exc, !.made = r.made,
                              !.phase = "checked"]
    /\ UNCHANGED nonRunVars

\* verify_paths cleaning out every WORKING_DIR it finds
verify_paths_clean_all(variant, p, keep, fs) ==
    LET clean == p["WORKING_DIR"] \in fs
        r == check_roots(variant, p, IF clean THEN rmtree(p["WORKING_DIR"], fs) ELSE fs)
    IN  [fs |-> r.fs, exc |-> r.exc, removed |-> clean]

\* verify_paths: WORKING_DIR is cleaned out first, then the roots are checked
verify_paths(variant, p, keep, fs) ==
    LET clean == p["WORKING_DIR"] \in fs
                    /\ ~(keep \/ p["WORKING_DIR"] = p["OUTPUT_DIR"])
        r == check_roots(variant, p, IF clean THEN rmtree(p["WORKING_DIR"], fs) ELSE fs)
    IN  [fs |-> r.fs, exc |-> r.exc, removed |-> clean]

\* "assert os.path.isdir(self.CODE_ROOT)" in the constructor of the path manager
path_manager_init(p, fs) ==
    IF p["CODE_ROOT"] \in fs THEN "none" ELSE "AssertionError"

\* The registry the start of a run is modelled with
RunRegistry ==
    load_pod_settings({Wk, Example2},
        (Wk :> [ok |-> TRUE, realm |-> Str(Atmos)])
        @@ (Example2 :> [ok |-> TRUE, realm |-> NoneValue]))

RunSelectors == {{Wk}, {Atmos, Bogus}, {Bogus}, {Example2}, {All}, {}}

RunCaseLists == {<<>>} \cup {<<e>> : e \in ListEntries}

\* the directory checks called on paths and a disk of the caller's choice
InitCheck ==
    \E v \in Variants, wk \in WorkingDirs :
       \E fs \in FileSystems(RootPaths(CliPaths(wk))) :
          run = [mode |-> "check", variant |-> v, phase |-> "start",
                 paths |-> RootPaths(CliPaths(wk)), roots |-> fs, fs |-> fs,
                 made |-> <<>>, exc |-> "none"]

\* the command line and the disk at the start of the constructor
InitStart ==
       \E v \in Variants, sel \in RunSelectors, cl \in RunCaseLists,
          mg \in {NoKeys, ("FIRSTYR" :> CliValue) @@ ("CASENAME" :> CliValue)},
          wk \in WorkingDirs, keep \in BOOLEAN, df \in BOOLEAN :
          \E fs \in FileSystems(RootPaths(CliPaths(wk))) :
             run = [mode |-> "run", variant |-> v, phase |-> "construct",
                    pods |-> [kind |-> "set", val |-> sel],
                    cli |-> [case_list |-> cl, MODEL |-> mg, root_dir |-> Empty,
                             is_default_pods |-> df],
                    cli_paths |-> CliPaths(wk),
                    paths |-> RootPaths(CliPaths(wk)), keep_temp |-> keep,
                    roots |-> fs, fs |-> fs,
                    pod_list |-> <<>>, case_list |-> <<>>, cases_run |-> <<>>,
                    verified |-> FALSE, wk_removed |-> FALSE, exc |-> "none",
                    exit |-> None]

InitRun ==
    /\ IdleTemp /\ IdleBump /\ IdlePaths /\ IdlePods /\ IdleCases /\ IdleTrans /\ IdleSig /\ IdleLoop
    /\ \/ InitCheck
       \/ InitStart

\* The framework builds ConfigManager, and with it the path manager, before
\* parse_mdtf_args; the configurer builds PathManager after it
PathsFirst == run.variant = "MDTFFramework"

\* parse_mdtf_args: parse_pod_list; the configurer ends with exit(), the
\* framework with exit(1)
RunParsePodList ==
    /\ run.mode = "run" /\ run.phase = "construct"
    /\ IF PathsFirst /\ path_manager_init(run.paths, run.fs) # "none"
       THEN run' = [run EXCEPT !.phase = "exited", !.exit = ExitUncaught,
                               !.exc = path_manager_init(run.paths, run.fs)]
       ELSE \E named \in Orders(named_pods(run.pods, RunRegistry)) :
               LET r == parse_pod_list(run.pods, RunRegistry, <<>>, named)
               IN  run' = [run EXCEPT
                             !.pod_list = r.pod_list,
                             !.phase = IF r.exited THEN "exited" ELSE "pods",
                             !.exc = IF r.exited THEN "SystemExit" ELSE "none",
                             !.exit = IF ~r.exited THEN None
                                      ELSE IF run.variant = "MDTFConfigurer" THEN ExitNoArg
                                      ELSE ExitOne]
    /\ UNCHANGED nonRunVars

\* parse_mdtf_args: parse_case_list
RunParseCaseList ==
    /\ run.mode = "run" /\ run.phase = "pods"
    /\ LET r == parse_case_list(run.cli, run.pod_list)
       IN  run' = [run EXCEPT
                     !.case_list = r.case_list,
                     !.phase = IF r.exit = None THEN "cases" ELSE "exited",
                     !.exc = IF r.exit = None THEN "none" ELSE "SystemExit",
                     !.exit = IF r.exit = None THEN None ELSE ExitOne]
    /\ UNCHANGED nonRunVars

\* verify_paths at the end of the constructor; its exception is not caught
RunVerifyPaths ==
    /\ run.mode = "run" /\ run.phase = "cases"
    /\ IF ~PathsFirst /\ path_manager_init(run.paths, run.fs) # "none"
       THEN run' = [run EXCEPT !.phase = "exited", !.exit = ExitUncaught,
                               !.exc = path_manager_init(run.paths, run.fs)]
       ELSE LET r == verify_paths(run.variant, run.paths, run.keep_temp, run.fs)
            IN  run' = [run EXCEPT
                          !.fs = r.fs,
                          !.verified = TRUE,
                          !.wk_removed = r.removed,
                          !.exc = r.exc,
                          !.phase = IF r.exc = "none" THEN "ready" ELSE "exited",
                          !.exit = IF r.exc = "none" THEN None ELSE ExitUncaught]
    /\ UNCHANGED nonRunVars

\* main_loop: "for case_dict in self.case_list[0:1]" sets up the first case
RunMainLoop ==
    /\ run.mode = "run" /\ run.phase = "ready"
    /\ run' = [run EXCEPT !.cases_run = SubSeq(run.case_list, 1, 1),
                          !.phase = "done"]
    /\ UNCHANGED nonRunVars

NextRun ==
    \/ RunParsePodList
    \/ RunParseCaseList
    \/ RunVerifyPaths
    \/ RunMainLoop
    \/ DirectoryCheck

SpecRun == InitRun /\ [][NextRun]_vars

(***************************************************************************)
(* Claims about the start of a run                                         *)
(***************************************************************************)
PodListEmpty == run.phase # "construct" /\ run.pod_list = <<>>

NoValidCase ==
    /\ run.phase \notin {"construct", "pods"}
    /\ run.pod_list # <<>>
    /\ run.case_list = <<>>

RequiredRootMissing ==
    /\ run.phase \notin {"construct", "pods", "cases"}
    /\ run.pod_list # <<>>
    /\ run.case_list # <<>>
    /\ \E k \in {"CODE_ROOT", "OBS_DATA_ROOT"} : run.paths[k] \notin run.roots

\* C11: each fatal configuration error (an empty resolved POD list, no valid
\* case-list entry, a missing required root directory) ends the process with a
\* nonzero exit status, and no case is set up or run afterwards.
C11_FatalErrorsExitNonzero ==
    (run.mode = "run" /\ (PodListEmpty \/ NoValidCase \/ RequiredRootMissing)) =>
        /\ run.phase = "exited"
        /\ run.exit > 0
        /\ run.cases_run = <<>>

(***************************************************************************)
(* VariableTranslator                                                      *)
(***************************************************************************)

MaxFiles == 2

CF == "CF"

\* self.axes['CF'], set by the constructor before any file is read
CFAxes == ("lon" :> "X") @@ ("lat" :> "Y") @@ ("lev" :> "Z") @@ ("time" :> "T")

\* d['convention_name'] of a file: one name or a list of aliases
ConventionNames ==
    { Str("CMIP"), Str("NCAR"), Str(CF),
      List(<<"CMIP", "NCAR">>), List(<<"CMIP", "CMIP">>), List(<<"NCAR", CF>>) }

\* The rest of a file: 'axes', 'var_names' and 'units', each optional.
\* var_names maps a CF name to one convention name or to a list of them.
FileBodies ==
    { ("axes" :> ("lon" :> "X")) @@
      ("var_names" :> ("pr" :> Str("PRECT"))) @@
      ("units" :> ("pr" :> Str("mm/day"))),
      ("var_names" :> (("pr" :> Str("PRECT")) @@ ("prc" :> Str("PRECT")))),
      ("axes" :> ("time" :> "T")) @@
      ("var_names" :> ("pr" :> List(<<"PRECT", "precip">>))) @@
      ("units" :> ("pr" :> Str("kg/m2/s"))),
      NoKeys }

ConfigFiles == { ("convention_name" :> c) @@ b : c \in ConventionNames, b \in FileBodies }

\* glob.glob(...): the files in the order the file system lists them
ConfigFileLists == UNION { [1..n -> ConfigFiles] : n \in 0..MaxFiles }

\* arguments of to_CF and from_CF
LookupConventions == {CF, "CMIP", "NCAR"}
LookupNames == {"pr", "prc", "PRECT", "precip"}

\* util.MultiMap(d): every value becomes a set
MultiMap(d) == [k \in DOMAIN d |-> coerce_to_iter(d[k])]

\* MultiMap.inverse(): each value mapped to the set of keys that hold it
inverse(m) ==
    [v \in UNION {m[k] : k \in DOMAIN m} |-> {k \in DOMAIN m : v \in m[k]}]

\* util.coerce_from_iter(obj): the only element of a one-element collection,
\* else the collection itself
coerce_from_iter(S) ==
    IF Cardinality(S) = 1
    THEN Str(CHOOSE x \in S : TRUE)
    ELSE [kind |-> "set", val |-> S]

\* key in d, for a key that may be a string or a collection of names
InDict(d, key) == key.kind = "str" /\ key.val \in DOMAIN d

\* MultiMap.get_(key)
get_(m, key) ==
    IF InDict(m, key)
    THEN [value |-> coerce_from_iter(m[key.val]), exc |-> "none"]
    ELSE [value |-> NoneValue, exc |-> "KeyError"]

\* the tables the constructor starts from
BuiltIn ==
    [axes |-> (CF :> CFAxes), variables |-> (CF :> NoKeys), units |-> (CF :> NoKeys),
     exc |-> "none", printed |-> ""]

\* a convention name registered a second time replaces the first tables
register_replace(t, conv, d) ==
    [t EXCEPT !.axes = set(@, conv, get(d, "axes", NoKeys)),
              !.variables = set(@, conv, MultiMap(get(d, "var_names", NoKeys))),
              !.units = set(@, conv, MultiMap(get(d, "units", NoKeys)))]

\* body of "for conv in util.coerce_to_iter(d['convention_name'])"
register(t, conv, d) ==
    IF conv \in DOMAIN t.variables
    THEN [t EXCEPT !.exc = "ConventionError", !.printed = conv]
    ELSE [t EXCEPT !.axes = set(@, conv, get(d, "axes", NoKeys)),
                   !.variables = set(@, conv, MultiMap(get(d, "var_names", NoKeys))),
                   !.units = set(@, conv, MultiMap(get(d, "units", NoKeys)))]

RECURSIVE load_aliases(_, _, _)
load_aliases(t, convs, d) ==
    IF convs = <<>> \/ t.exc # "none"
    THEN t
    ELSE load_aliases(register(t, Head(convs), d), Tail(convs), d)

\* "for f in config_files", stopped by the first exception
RECURSIVE load_files(_, _)
load_files(t, files) ==
    IF files = <<>> \/ t.exc # "none"
    THEN t
    ELSE load_files(load_aliases(t, to_iter(Head(files)["convention_name"]), Head(files)),
                    Tail(files))

\* VariableTranslator.__init__
translator_init(files) == load_files(BuiltIn, files)

\* to_CF returning the name it was given for every convention
to_CF_unchecked(t, convention, v_name) == [value |-> v_name, exc |-> "none"]

\* VariableTranslator.to_CF
to_CF(t, convention, v_name) ==
    IF convention = CF
    THEN [value |-> v_name, exc |-> "none"]
    ELSE IF convention \notin DOMAIN t.variables
    THEN [value |-> NoneValue, exc |-> "AssertionError"]
    ELSE LET inv_lookup == inverse(t.variables[convention])
         IN  IF InDict(inv_lookup, v_name)
             THEN [value |-> coerce_from_iter(inv_lookup[v_name.val]), exc |-> "none"]
             ELSE [value |-> NoneValue, exc |-> "KeyError"]

\* VariableTranslator.from_CF
from_CF(t, convention, v_name) ==
    IF convention = CF
    THEN [value |-> v_name, exc |-> "none"]
    ELSE IF convention \notin DOMAIN t.variables
    THEN [value |-> NoneValue, exc |-> "AssertionError"]
    ELSE get_(t.variables[convention], v_name)

InitTrans ==
    /\ IdleTemp /\ IdleBump /\ IdlePaths /\ IdlePods /\ IdleCases /\ IdleRun
    /\ IdleSig /\ IdleLoop
    /\ \E files \in ConfigFileLists : trIn = [mode |-> "files", files |-> files]
    /\ trTab = [state |-> "unbuilt"]
    /\ trOut = [op |-> "none"]

\* the constructor: every file is read, or the first duplicate raises
LoadConventions ==
    /\ trIn.mode = "files"
    /\ trTab.state = "unbuilt"
    /\ LET t == translator_init(trIn.files)
       IN  trTab' = [state |-> IF t.exc = "none" THEN "built" ELSE "raised",
                     axes |-> t.axes, variables |-> t.variables, units |-> t.units,
                     exc |-> t.exc, printed |-> t.printed]
    /\ UNCHANGED <<trIn, trOut, nonTransVars>>

ToCF ==
    /\ trTab.state = "built"
    /\ \E convention \in LookupConventions, name \in LookupNames :
          trOut' = [op |-> "to_CF", convention |-> convention, v_name |-> Str(name),
                    of |-> NoneValue, res |-> to_CF(trTab, convention, Str(name))]
    /\ UNCHANGED <<trIn, trTab, nonTransVars>>

FromCF ==
    /\ trTab.state = "built"
    /\ \E convention \in LookupConventions, name \in LookupNames :
          trOut' = [op |-> "from_CF", convention |-> convention, v_name |-> Str(name),
                    of |-> NoneValue, res |-> from_CF(trTab, convention, Str(name))]
    /\ UNCHANGED <<trIn, trTab, nonTransVars>>

\* from_CF(conv, to_CF(conv, name)): from_CF called with what to_CF returned
FromCFOfToCF ==
    /\ trTab.state = "built"
    /\ trOut.op = "to_CF"
    /\ trOut.res.exc = "none"
    /\ trOut' = [op |-> "from_CF", convention |-> trOut.convention,
                 v_name |-> trOut.res.value, of |-> trOut.v_name,
                 res |-> from_CF(trTab, trOut.convention, trOut.res.value)]
    /\ UNCHANGED <<trIn, trTab, nonTransVars>>

NextTrans == LoadConventions \/ ToCF \/ FromCF \/ FromCFOfToCF

SpecTrans == InitTrans /\ [][NextTrans]_vars

(***************************************************************************)
(* Claims about VariableTranslator                                         *)
(***************************************************************************)

ConstructorEnded == trTab.state \in {"built", "raised"}

\* the aliases file i declares, in order
AliasesOf(i) == to_iter(trIn.files[i]["convention_name"])

DeclaredBy(c) == {i \in 1..Len(trIn.files) : c \in Range(AliasesOf(i))}

\* some name is met a second time: the built-in 'CF', a name of an earlier
\* file, or a name repeated in the alias list of one file
RegisteredAgain ==
    \/ DeclaredBy(CF) # {}
    \/ \E c \in LookupConventions : Cardinality(DeclaredBy(c)) > 1
    \/ \E i \in 1..Len(trIn.files) :
          \E j, k \in 1..Len(AliasesOf(i)) : j < k /\ AliasesOf(i)[j] = AliasesOf(i)[k]

FirstFile(c) == trIn.files[CHOOSE i \in DeclaredBy(c) : \A j \in DeclaredBy(c) : i <= j]

AsSet(v) == IF v.kind = "str" THEN {v.val} ELSE Range(v.val)

TableOf(d, key) ==
    IF key \in DOMAIN d THEN [k \in DOMAIN d[key] |-> AsSet(d[key][k])] ELSE <<>>

\* the tables as the first registration of c left them
FirstTables(c) ==
    IF c = CF
    THEN [axes |-> CFAxes, variables |-> <<>>, units |-> <<>>]
    ELSE [axes |-> IF "axes" \in DOMAIN FirstFile(c) THEN FirstFile(c)["axes"] ELSE <<>>,
          variables |-> TableOf(FirstFile(c), "var_names"),
          units |-> TableOf(FirstFile(c), "units")]

TablesUnder(c) ==
    [axes |-> trTab.axes[c], variables |-> trTab.variables[c], units |-> trTab.units[c]]

\* C16: loading raises ConventionError exactly when a convention name is
\* registered that is already registered (the built-in 'CF', a name of an
\* earlier file, or an earlier alias of the same file), and the axes,
\* variable and unit tables under every registered name are the ones its
\* first registration stored: neither replaced nor merged.
C16_DuplicateConventionRaises ==
    ConstructorEnded =>
        /\ (trTab.state = "raised") <=> RegisteredAgain
        /\ trTab.state = "raised" => trTab.exc = "ConventionError"
        /\ DOMAIN trTab.axes = DOMAIN trTab.variables
        /\ DOMAIN trTab.units = DOMAIN trTab.variables
        /\ \A c \in DOMAIN trTab.variables : TablesUnder(c) = FirstTables(c)

\* two files declare 'CMIP' with different variable tables and loading raised
C16_Witness ==
    /\ trTab.state = "raised"
    /\ trTab.printed = "CMIP"
    /\ Cardinality(DeclaredBy("CMIP")) = 2
    /\ \E i, j \in DeclaredBy("CMIP") :
          TableOf(trIn.files[i], "var_names") # TableOf(trIn.files[j], "var_names")
    /\ TablesUnder("CMIP") = FirstTables("CMIP")

LookupEnded == trOut.op \in {"to_CF", "from_CF"}

NeverLoaded(c) == c # CF /\ DeclaredBy(c) = {}

\* the convention's variable table holds the name: as a convention-specific
\* name for to_CF, as a CF name for from_CF
HasEntry(op, c, v) ==
    LET table == FirstTables(c).variables
    IN  /\ v.kind = "str"
        /\ IF op = "to_CF"
           THEN \E k \in DOMAIN table : v.val \in table[k]
           ELSE v.val \in DOMAIN table

\* C17: to_CF and from_CF return the name they were given for convention
\* 'CF', whatever was loaded; for another convention they fail with
\* AssertionError when no file declared it and with KeyError, a different
\* kind, when it is loaded but holds no entry for the name.
C17_IdentityAndErrorKinds ==
    LookupEnded =>
        /\ trOut.convention = CF =>
              trOut.res = [value |-> trOut.v_name, exc |-> "none"]
        /\ NeverLoaded(trOut.convention) => trOut.res.exc = "AssertionError"
        /\ (/\ trOut.convention # CF
            /\ ~NeverLoaded(trOut.convention)
            /\ ~HasEntry(trOut.op, trOut.convention, trOut.v_name))
              => trOut.res.exc = "KeyError"

\* 'CMIP' is loaded with a non-empty table that has no entry for the name
C17_Witness ==
    /\ trOut.op = "to_CF"
    /\ trOut.convention = "CMIP"
    /\ DeclaredBy("CMIP") # {}
    /\ DeclaredBy("NCAR") = {}
    /\ FirstTables("CMIP").variables # <<>>
    /\ ~HasEntry("to_CF", "CMIP", trOut.v_name)
    /\ trOut.res.exc = "KeyError"

\* from_CF was called with the result of to_CF for a name of the
\* convention's own variable table
RoundTripEnded ==
    /\ trOut.op = "from_CF"
    /\ trOut.of # NoneValue
    /\ trOut.convention # CF
    /\ HasEntry("to_CF", trOut.convention, trOut.of)

\* the entry of a convention-specific name is single-valued both ways: one
\* CF name maps to it, and that CF name maps to nothing else
SingleValued(c, n) ==
    LET table == FirstTables(c).variables
    IN  /\ Cardinality({k \in DOMAIN table : n \in table[k]}) = 1
        /\ \A k \in DOMAIN table : n \in table[k] => table[k] = {n}

\* C18: for a loaded convention and a name of its variable table,
\* from_CF(conv, to_CF(conv, name)) ends without error with a result that
\* holds name, and with exactly name when the entry is single-valued in
\* both directions.
C18_RoundTripRecoversName ==
    RoundTripEnded =>
        /\ trOut.res.exc = "none"
        /\ trOut.of.val \in coerce_to_iter(trOut.res.value)
        /\ SingleValued(trOut.convention, trOut.of.val) => trOut.res.value = trOut.of

(***************************************************************************)
(* Claims about verify_paths                                               *)
(***************************************************************************)

PathsVerified == run.mode = "run" /\ run.verified

WkDir == run.paths["WORKING_DIR"]
OutputDir == run.paths["OUTPUT_DIR"]

\* what a path held when startup began, the path itself left out
Below(p) == {q \in run.roots : IsPrefix(p, q) /\ q # p}

WkUnset == run.cli_paths["WORKING_DIR"] = Empty

\* C22: verify_paths removes the WORKING_DIR subtree if and only if
\* WORKING_DIR exists, keep_temp is not set and WORKING_DIR differs from
\* OUTPUT_DIR; an unset WORKING_DIR is defaulted to OUTPUT_DIR and nothing is
\* removed.
C22_WorkingDirRemovedIff ==
    PathsVerified =>
        /\ run.wk_removed <=>
              (WkDir \in run.roots /\ ~run.keep_temp /\ WkDir # OutputDir)
        /\ run.wk_removed => Below(WkDir) \cap run.fs = {}
        /\ ~run.wk_removed => run.roots \subseteq run.fs
        /\ WkUnset =>
              /\ WkDir = OutputDir
              /\ ~run.wk_removed
              /\ run.roots \subseteq run.fs

\* a WORKING_DIR with the directory of an earlier run in it was cleaned out
C22_Witness ==
    /\ PathsVerified
    /\ ~run.keep_temp
    /\ WkDir # OutputDir
    /\ OldRun(run.paths) \in run.roots
    /\ OldRun(run.paths) \notin run.fs
    /\ run.wk_removed

DirsChecked == run.mode = "check" /\ run.phase = "checked"

RequiredDirs == {run.paths[k] : k \in {"CODE_ROOT", "OBS_DATA_ROOT"}}
CreatedDirs == {run.paths[k] : k \in {"MODEL_DATA_ROOT", "WORKING_DIR", "OUTPUT_DIR"}}

\* C23: directory validation fails when CODE_ROOT or OBS_DATA_ROOT is missing
\* and never creates either of them; when both exist it creates those of
\* MODEL_DATA_ROOT, WORKING_DIR and OUTPUT_DIR that are absent; it calls
\* os.makedirs for no directory that exists, and removes nothing.
C23_RequiredAndCreatedDirs ==
    DirsChecked =>
        /\ ~(RequiredDirs \subseteq run.roots) => run.exc # "none"
        /\ \A d \in RequiredDirs : d \notin Range(run.made) /\ (d \in run.fs => d \in run.roots)
        /\ RequiredDirs \subseteq run.roots =>
              /\ run.exc = "none"
              /\ CreatedDirs \subseteq run.fs
              /\ Range(run.made) = CreatedDirs \ run.roots
        /\ NoDuplicates(run.made)
        /\ \A d \in Range(run.made) : d \notin run.roots
        /\ run.fs = run.roots \cup Range(run.made)

\* both required roots exist, MODEL_DATA_ROOT exists and is left alone,
\* OUTPUT_DIR is created
C23_Witness ==
    /\ DirsChecked
    /\ RequiredDirs \subseteq run.roots
    /\ run.paths["MODEL_DATA_ROOT"] \in run.roots
    /\ run.paths["OUTPUT_DIR"] \notin run.roots
    /\ run.paths["OUTPUT_DIR"] \in Range(run.made)
    /\ run.paths["MODEL_DATA_ROOT"] \notin Range(run.made)

\* startup ended with the error of a missing CODE_ROOT or OBS_DATA_ROOT
StartupFailedOnRoot ==
    /\ run.mode = "run"
    /\ run.phase = "exited"
    /\ run.exc \in {"AssertionError", "FileNotFoundError", "OSError"}
    /\ ~(RequiredDirs \subseteq run.roots)

\* C25: when startup fails because CODE_ROOT or OBS_DATA_ROOT is missing, the
\* disk is as it was before startup: nothing was created or deleted, and a
\* WORKING_DIR that existed still holds what it held.
C25_FailedStartupLeavesDisk ==
    StartupFailedOnRoot => run.fs = run.roots

(***************************************************************************)
(* SIGINT / SIGTERM: MDTFFramework.__init__ installs cleanup_tempdirs as   *)
(* the handler of both signals before anything else is built               *)
(***************************************************************************)
MaxSignals == 2

SigKeys == {<<"a">>, <<"b">>, <<"a", "c">>}

NoPath == <<>>

\* cleanup_tempdirs called by the interpreter as a signal handler.
\* "config = configs.ConfigManager()" runs ConfigManager.__init__ with
\* cli_obj=None when the singleton has not been built, and "assert cli_obj"
\* fails; TempDirManager() builds an empty manager when none exists.
signal_handler(config, keep, ds, dk) ==
    IF ~config
    THEN [dirs |-> ds, disk |-> dk, exc |-> "AssertionError"]
    ELSE cleanup_tempdirs(keep, ds, dk)

InitSig ==
    /\ IdleTemp /\ IdleBump /\ IdlePaths /\ IdlePods /\ IdleCases /\ IdleRun
    /\ IdleTrans /\ IdleLoop
    /\ \E keep \in BOOLEAN :
          sig = [mode |-> "run", phase |-> "installed", keep_temp |-> keep,
                 dirs |-> <<>>, disk |-> {}, i |-> 1, pending |-> NoPath,
                 signals |-> 0,
                 handled |-> [exc |-> "none", dirsBefore |-> <<>>, diskAfter |-> {}]]

\* config = configs.ConfigManager(cli_obj, pod_info_tuple)
SigBuildConfig ==
    /\ sig.mode = "run" /\ sig.phase = "installed"
    /\ sig' = [sig EXCEPT !.phase = "config"]
    /\ UNCHANGED nonSigVars

\* _post_parse_hook: _ = configs.TempDirManager()
SigBuildTempDirs ==
    /\ sig.mode = "run" /\ sig.phase = "config"
    /\ sig' = [sig EXCEPT !.phase = "running"]
    /\ UNCHANGED nonSigVars

\* a temp directory made during the run
SigMakeTempdir ==
    /\ sig.mode = "run" /\ sig.phase = "running"
    /\ \E k \in SigKeys :
          LET r == make_tempdir(k, sig.dirs, sig.disk)
          IN  sig' = [sig EXCEPT !.dirs = r.dirs, !.disk = r.disk,
                                 !.phase = IF r.exc = "none" THEN @ ELSE "failed"]
    /\ UNCHANGED nonSigVars

\* main_loop reaches self.cleanup_tempdirs()
SigStartCleanup ==
    /\ sig.mode = "run" /\ sig.phase = "running"
    /\ sig' = [sig EXCEPT !.phase = IF sig.keep_temp THEN "done" ELSE "cleanup",
                          !.i = 1]
    /\ UNCHANGED nonSigVars

\* cleanup(): the next d of "for d in self._dirs", and in rm_tempdir the
\* assert and self._dirs.remove(path)
SigCleanupRemove ==
    /\ sig.mode = "run" /\ sig.phase = "cleanup" /\ sig.pending = NoPath
    /\ IF sig.i > Len(sig.dirs)
       THEN sig' = [sig EXCEPT !.phase = "done"]
       ELSE sig' = [sig EXCEPT !.dirs = ListRemove(@, sig.dirs[sig.i]),
                               !.pending = sig.dirs[sig.i]]
    /\ UNCHANGED nonSigVars

\* rm_tempdir: shutil.rmtree(path)
SigCleanupRmtree ==
    /\ sig.mode = "run" /\ sig.phase = "cleanup" /\ sig.pending # NoPath
    /\ IF sig.pending \in sig.disk
       THEN sig' = [sig EXCEPT !.disk = rmtree(sig.pending, @),
                               !.pending = NoPath, !.i = @ + 1]
       ELSE sig' = [sig EXCEPT !.phase = "failed", !.pending = NoPath]
    /\ UNCHANGED nonSigVars

\* SIGINT or SIGTERM: the handler runs to its end in the main thread, between
\* two steps of whatever the main thread was doing
Signal ==
    /\ sig.mode = "run"
    /\ sig.phase \in {"installed", "config", "running", "cleanup"}
    /\ sig.signals < MaxSignals
    /\ LET r == signal_handler(sig.phase # "installed", sig.keep_temp, sig.dirs, sig.disk)
       IN  sig' = [sig EXCEPT
                     !.dirs = r.dirs, !.disk = r.disk,
                     !.signals = @ + 1,
                     !.handled = [exc |-> r.exc, dirsBefore |-> sig.dirs,
                                  diskAfter |-> r.disk],
                     !.phase = IF r.exc = "none" THEN @ ELSE "failed"]
    /\ UNCHANGED nonSigVars

NextSig ==
    \/ SigBuildConfig
    \/ SigBuildTempDirs
    \/ SigMakeTempdir
    \/ SigStartCleanup
    \/ SigCleanupRemove
    \/ SigCleanupRmtree
    \/ Signal

SpecSig == InitSig /\ [][NextSig]_vars

(***************************************************************************)
(* Claims about signal handling                                            *)
(***************************************************************************)
SignalHandled == sig.mode = "run" /\ sig.signals > 0

\* C24: a SIGINT or SIGTERM delivered at any point after the handlers are
\* installed is handled without an error, and when the handler returns no
\* directory that was registered is on disk unless keep_temp is set.
C24_SignalCleansUp ==
    SignalHandled =>
        /\ sig.handled.exc = "none"
        /\ ~sig.keep_temp => Range(sig.handled.dirsBefore) \cap sig.handled.diskAfter = {}

(***************************************************************************)
(* MDTFFramework.main_loop                                                 *)
(***************************************************************************)
MaxLoopCases == 2

Precip == <<"precip">>
LoopPods == {Wk, Example2, Precip}

\* the local variable "pod" before its first assignment
Unbound == <<>>

\* pod lists of a case: PODs in any order, none twice
PodLists ==
    UNION { {l \in [1..n -> LoopPods] : \A i, j \in 1..n : i # j => l[i] # l[j]} :
            n \in 0..Cardinality(LoopPods) }

LoopCaseLists == UNION { [1..n -> PodLists] : n \in 1..MaxLoopCases }

\* what the constructor of a Diagnostic can raise
DiagnosticErrors == {"AssertionError", "KeyError"}

Call(name, c, p) == [call |-> name, case |-> c, pod |-> p]

\* every case of the list
all_cases(cl) == cl

\* self.case_list[0:1]
first_case(cl) == SubSeq(cl, 1, 1)

\* "for pod_name in case.pod_list": Diagnostic(pod_name) inside the try,
\* case.pods.append(pod) after it.  st holds the local pod, case.pods, the
\* log of calls and the exception that left the loop.
RECURSIVE build_pods(_, _, _, _, _)
build_pods(c, names, failing, kind, st) ==
    IF names = <<>> \/ st.exc # "none"
    THEN st
    ELSE LET pod_name == Head(names)
             called == [st EXCEPT !.log = Append(@, Call("Diagnostic", c, pod_name))]
             tried == IF pod_name \notin failing
                      THEN [called EXCEPT !.pod = pod_name]
                      ELSE IF kind = "AssertionError"
                      THEN called
                      ELSE [called EXCEPT !.exc = kind]
             appended == IF tried.exc # "none"
                         THEN tried
                         ELSE IF tried.pod = Unbound
                         THEN [tried EXCEPT !.exc = "UnboundLocalError"]
                         ELSE [tried EXCEPT !.pods = Append(@, tried.pod)]
         IN  build_pods(c, Tail(names), failing, kind, appended)

\* the first loop of main_loop over cases c..: DataManager, the PODs, setUp,
\* fetch_data, caselist.append(case)
RECURSIVE set_up_cases(_, _, _, _, _)
set_up_cases(c, cl, failing, kind, st) ==
    IF c > Len(cl) \/ st.exc # "none"
    THEN st
    ELSE LET made == [st EXCEPT !.log = Append(@, Call("DataManager", c, Unbound)),
                                !.pods = <<>>]
             built == build_pods(c, cl[c], failing, kind, made)
         IN  IF built.exc # "none"
             THEN built
             ELSE set_up_cases(c + 1, cl, failing, kind,
                     [built EXCEPT
                        !.log = @ \o <<Call("case.setUp", c, Unbound),
                                       Call("fetch_data", c, Unbound)>>,
                        !.caselist = Append(@, built.pods)])

\* the calls of the second and third loop and of cleanup_tempdirs
RECURSIVE for_each(_, _, _)
for_each(names, c, n) ==
    IF c > n THEN <<>>
    ELSE [k \in 1..Len(names) |-> Call(names[k], c, Unbound)] \o for_each(names, c + 1, n)

\* MDTFFramework.main_loop
main_loop(cases, failing, kind) ==
    LET start == [pod |-> Unbound, pods |-> <<>>, caselist |-> <<>>, log |-> <<>>,
                  exc |-> "none"]
        st == set_up_cases(1, first_case(cases), failing, kind, start)
        n == Len(st.caselist)
    IN  IF st.exc # "none"
        THEN [caselist |-> st.caselist, log |-> st.log, exc |-> st.exc]
        ELSE [caselist |-> st.caselist,
              log |-> st.log
                      \o for_each(<<"env.setUp", "env.run", "env.tearDown">>, 1, n)
                      \o for_each(<<"case.tearDown">>, 1, n)
                      \o <<Call("cleanup_tempdirs", 0, Unbound)>>,
              exc |-> "none"]

InitLoop ==
    /\ IdleTemp /\ IdleBump /\ IdlePaths /\ IdlePods /\ IdleCases /\ IdleRun
    /\ IdleTrans /\ IdleSig
    /\ \E cl \in LoopCaseLists, failing \in SUBSET LoopPods, kind \in DiagnosticErrors :
          ml = [mode |-> "run", state |-> "ready", case_list |-> cl,
                failing |-> failing, kind |-> kind,
                caselist |-> <<>>, log |-> <<>>, exc |-> "none"]

MainLoop ==
    /\ ml.mode = "run" /\ ml.state = "ready"
    /\ LET r == main_loop(ml.case_list, ml.failing, ml.kind)
       IN  ml' = [ml EXCEPT !.state = IF r.exc = "none" THEN "returned" ELSE "raised",
                            !.caselist = r.caselist, !.log = r.log, !.exc = r.exc]
    /\ UNCHANGED nonLoopVars

NextLoop == MainLoop

SpecLoop == InitLoop /\ [][NextLoop]_vars

(***************************************************************************)
(* Claims about main_loop                                                  *)
(***************************************************************************)
LoopEnded == ml.mode = "run" /\ ml.state \in {"returned", "raised"}

FirstPods == ml.case_list[1]

SomeDiagnosticFailed == \E i \in 1..Len(FirstPods) : FirstPods[i] \in ml.failing

Buildable(p) == p \notin ml.failing

\* C26: when the construction of a POD's Diagnostic fails, main_loop does not
\* raise, and the pods of the case are the PODs of its pod_list that could be
\* built, in order and once each: the failed POD is not among them and no
\* other POD stands in for it.
C26_FailedPodSkipped ==
    (LoopEnded /\ SomeDiagnosticFailed) =>
        /\ ml.exc = "none"
        /\ Len(ml.caselist) >= 1
        /\ ml.caselist[1] = SelectSeq(FirstPods, Buildable)

IsCall(name, e) == e.call = name

Positions(name) == {k \in 1..Len(ml.log) : IsCall(name, ml.log[k])}

\* the cases a call was made for, in the order of the calls
RECURSIVE CasesFrom(_, _)
CasesFrom(name, k) ==
    IF k > Len(ml.log) THEN <<>>
    ELSE (IF IsCall(name, ml.log[k]) THEN <<ml.log[k].case>> ELSE <<>>)
         \o CasesFrom(name, k + 1)

CasesOf(name) == CasesFrom(name, 1)

\* the PODs Diagnostic was called for in case c, in the order of the calls
RECURSIVE PodsFrom(_, _)
PodsFrom(c, k) ==
    IF k > Len(ml.log) THEN <<>>
    ELSE (IF IsCall("Diagnostic", ml.log[k]) /\ ml.log[k].case = c
          THEN <<ml.log[k].pod>> ELSE <<>>)
         \o PodsFrom(c, k + 1)

UpTo(n) == [k \in 1..n |-> k]

IsPrefixOf(p, q) == Len(p) <= Len(q) /\ SubSeq(q, 1, Len(p)) = p

\* cleanup_tempdirs is called at most once, as the last call, after the
\* environment manager and the tearDown of every case that was set up
CleanupComesLast ==
    /\ Cardinality(Positions("cleanup_tempdirs")) <= 1
    /\ ml.state = "raised" => Positions("cleanup_tempdirs") = {}
    /\ ml.state = "returned" =>
          /\ Positions("cleanup_tempdirs") = {Len(ml.log)}
          /\ \A name \in {"env.setUp", "env.run", "env.tearDown", "case.tearDown"} :
                CasesOf(name) = CasesOf("DataManager")

PodsInListOrder ==
    \A c \in 1..Len(ml.case_list) :
        /\ IsPrefixOf(PodsFrom(c, 1), IF c \in Range(CasesOf("DataManager"))
                                      THEN ml.case_list[c] ELSE <<>>)
        /\ (ml.state = "returned" /\ c \in Range(CasesOf("DataManager")))
              => PodsFrom(c, 1) = ml.case_list[c]

\* C29: main_loop processes every case of the case list, in list order with
\* each case's PODs in pod_list order, and runs cleanup_tempdirs only after
\* the environment manager and the tearDown of every processed case.
C29_EveryCaseInOrder ==
    LoopEnded =>
        /\ ml.state = "returned" => CasesOf("DataManager") = UpTo(Len(ml.case_list))
        /\ PodsInListOrder
        /\ CleanupComesLast

\* C29 as the code has it: main_loop processes the first case of the case
\* list and no other, its PODs in pod_list order, and runs cleanup_tempdirs
\* only after the environment manager and the tearDown of that case; when a
\* Diagnostic cannot be built and the loop raises, cleanup_tempdirs is not run.
C29_FirstCaseInOrder ==
    LoopEnded =>
        /\ CasesOf("DataManager") = UpTo(1)
        /\ PodsInListOrder
        /\ CleanupComesLast

\* two cases, the first with two PODs that can be built: only the first case
\* is processed, and cleanup_tempdirs is the last call
C29_Witness ==
    /\ ml.mode = "run" /\ ml.state = "returned"
    /\ Len(ml.case_list) = 2
    /\ Len(FirstPods) = 2
    /\ ml.case_list[2] # <<>>
    /\ PodsFrom(1, 1) = FirstPods
    /\ PodsFrom(2, 1) = <<>>
    /\ ml.log[Len(ml.log)].call = "cleanup_tempdirs"

(***************************************************************************)
(* More claims about parse_pod_list and load_pod_settings                  *)
(***************************************************************************)

\* C27: the POD list produced by parse_pod_list holds no POD name more than
\* once, for every selector set, also when a POD is asked for by its name and
\* by a realm it is registered under.
C27_PodListHasNoDuplicates ==
    Parsed => NoDuplicates(pod_list)

\* load_pod_settings() returned: no settings file lacked its 'settings' key
LoadReturned == LoadEnded /\ podReg.exc = "none"

\* The keys of the realm index whose list holds POD n
KeysOf(n) == {i \in 1..Len(podReg.pod_realms) : n \in Range(podReg.pod_realms[i].pods)}

DeclaredRealms(n) == to_iter(podIn.files[n].realm)

\* C30: after load_pod_settings() each valid POD is under at most one key of
\* the realm index: under none when it declares no realm, under that realm
\* string when it declares one, under the tuple of its realms (and under no
\* single-realm key) when it declares several; realm_list holds every realm
\* a valid POD declares, the members of tuples included.
C30_RealmIndex ==
    LoadReturned =>
        \A n \in Registered :
            LET r == DeclaredRealms(n)
                ks == KeysOf(n)
            IN  /\ Cardinality(ks) <= 1
                /\ Len(r) = 0 => ks = {}
                /\ Len(r) = 1 =>
                      \E i \in ks : KeyEq(podReg.pod_realms[i].key, [kind |-> "str", val |-> r[1]])
                /\ Len(r) > 1 =>
                      \E i \in ks : KeyEq(podReg.pod_realms[i].key, [kind |-> "tuple", val |-> r])
                /\ Range(r) \subseteq Range(podReg.all_realms)

\* A POD of several realms is loaded next to a POD of one of those realms
C30_Witness ==
    /\ LoadReturned
    /\ \E n, m \in Registered :
          /\ Len(DeclaredRealms(n)) > 1
          /\ Len(DeclaredRealms(m)) = 1
          /\ DeclaredRealms(m)[1] \in Range(DeclaredRealms(n))
          /\ KeysOf(n) # KeysOf(m)

(***************************************************************************)
(* Claims about the pod_list of the cases of a run                         *)
(***************************************************************************)
CaseListResolved == run.mode = "run" /\ run.phase \in {"cases", "ready", "done"}

\* The names of the PODs load_pod_settings registered
RegisteredPods == Range(RunRegistry.pod_data)

\* C28: every POD name in the pod_list of every case of the final case list
\* is the name of a registered POD, whether the list came from the command
\* line selection or from the case's own pod_list.
C28_CasePodsRegistered ==
    CaseListResolved =>
        \A i \in 1..Len(run.case_list) :
            Range(run.case_list[i]["pod_list"]) \subseteq RegisteredPods

====
